---- MODULE Spec2Model ----
(***************************************************************************)
(* Model of the asynchronous job handler (AsyncJobHandler) and of the      *)
(* temporary file registry (FileService) of the music-bag Telegram bot.    *)
(*                                                                         *)
(* Node.js runs one callback at a time, so every action below is one       *)
(* synchronous stretch of code: from the resumption of an `await` up to    *)
(* the next `await` that really suspends (a network call to the remote     *)
(* API or to Telegram, or a file-system call).  Time is counted in         *)
(* minutes.                                                                *)
(***************************************************************************)
EXTENDS Integers, Sequences, FiniteSets, TLC

\* ---------------------------------------------------------------- bounds
MaxJobs == 2          \* job ids ever generated
NumPollers == 2       \* pollJobs invocations that may be in flight at once
MaxTokens == 2        \* url tokens ever generated
MaxNow == 6           \* last minute of the modelled window
MaxRetryCount == 6    \* cap on retryCount

\* ------------------------------------------------------ program constants
RetryCeiling == 5         \* job.retryCount >= 5
GraceMinutes == 5         \* setTimeout(..., 300000)
CancelGraceMinutes == 1   \* setTimeout(..., 60000)
CronPeriodMinutes == 60   \* cron '0 * * * *'
MaxAgeMinutes == 1440     \* 24 * 60 * 60 * 1000 ms
TtlMinutes == 60          \* TMP_TTL_SECONDS default 3600
MaxFileSize == 50         \* MAX_UPLOAD_MB default 50 (sizes in MB)

JobIds == 1..MaxJobs
Pollers == 1..NumPollers
Titles == {"t"}
Chats == {1}
\* The runs explored.  A run is shaped by its environment: how many download
\* requests arrive (jobs), how many pollJobs invocations are in flight at
\* once because a tick outlasts the 10 s interval (slots), how many minutes
\* the run lasts (horizon), the minute of the first hourly cron run (cron),
\* how many status polls the remote lets fail per job (retries), and
\* whether the run is the one that lasts over a day (leap): in it time
\* passes from one timer or cron callback to the next, and the remote never
\* finishes a job nor fails a status poll.  In the run with callbacks the
\* user presses the Cancel button of the progress message.
Envs ==
  { [jobs |-> 1, slots |-> NumPollers, horizon |-> 0,
     cron |-> CronPeriodMinutes, retries |-> MaxRetryCount, leap |-> FALSE,
     callbacks |-> FALSE],
    [jobs |-> 1, slots |-> 1, horizon |-> MaxNow,
     cron |-> 1, retries |-> MaxRetryCount, leap |-> FALSE,
     callbacks |-> FALSE],
    [jobs |-> 1, slots |-> 1, horizon |-> MaxNow,
     cron |-> CronPeriodMinutes, retries |-> MaxRetryCount, leap |-> FALSE,
     callbacks |-> FALSE],
    [jobs |-> MaxJobs, slots |-> 1, horizon |-> 0,
     cron |-> CronPeriodMinutes, retries |-> 1, leap |-> FALSE,
     callbacks |-> TRUE],
    [jobs |-> 1, slots |-> 1, horizon |-> MaxAgeMinutes + CronPeriodMinutes,
     cron |-> CronPeriodMinutes, retries |-> 0, leap |-> TRUE,
     callbacks |-> FALSE] }
\* sizes a finished file can have: at the upload limit, above it
FileSizes == {MaxFileSize, MaxFileSize + 1}

NoTime == -1
NoJob == 0
\* the slot of a job object that has not been created
NoJobRec ==
  [status |-> "absent", apiJobId |-> FALSE, chatId |-> NoJob, title |-> "",
   startTime |-> NoTime, endTime |-> NoTime, error |-> "none",
   retryCount |-> 0]
NoToken == 0
NoFile == 0

\* error strings the handler stores in job.error
ErrNone == "none"
ErrJobFailed == "Job failed"
ErrRemote == "remote error text"
ErrNoUrl == "No download URL provided"
ErrTooMany == "Too many polling failures"
ErrCancelled == "Cancelled by user"
ErrMessage == "Error.message"   \* message of an Error thrown by an await

\* what getJobStatus can resolve to (StatusResponse)
Responses ==
  { [status |-> "queued",     url |-> FALSE, error |-> ErrNone],
    [status |-> "processing", url |-> FALSE, error |-> ErrNone],
    [status |-> "ready",      url |-> TRUE,  error |-> ErrNone],
    [status |-> "ready",      url |-> FALSE, error |-> ErrNone],
    [status |-> "failed",     url |-> FALSE, error |-> ErrRemote],
    [status |-> "failed",     url |-> FALSE, error |-> ErrNone] }

VARIABLES
  env,          \* the environment of the run (fixed at start), see Envs
  now,          \* wall clock, minutes since process start
  nextCron,     \* minute of the next hourly cron run
  nextJobId,    \* next job id generateJobId will return
  job,          \* the AsyncJob objects, by id (NoJobRec: not created)
  jobs,         \* this.jobs: ids in the Map, in insertion order
  poller,       \* the pollJobs invocations
  timers,       \* job id -> minute of its earliest pending removal timer
  nextToken,    \* next url token
  tempFiles,    \* FileService.tempFiles: token -> TempFile
  disk,         \* tmpDir: file name -> size (NoFile: absent)
  writes,       \* FileService: registrations (createTempFileFromStream,
                \* saveTempFile) in flight
  cleans,       \* FileService: cleanupTempFile invocations in flight
  sweep,        \* FileService: the cleanupExpiredFiles invocation
  purge,        \* FileService: the cleanupChatFiles invocation
  call,         \* a call of a pure helper (error messages, UrlValidator)
                \* and its result
  req,          \* FileServer: the /download/:token request being handled
  rangeCall,    \* FileServer: a call of handleRangeRequest and its result
  sync,         \* DownloadHandler: the processSyncDownload invocation
  bot,          \* the rate limiters and the download request being admitted
  hist          \* observations for the properties, not program state:
                \*   submitFailed   ids whose submitJob was rejected
                \*   consec[j]      status polls of j that failed in a row
                \*   lastResp[j]    outcome of the last status poll of j
                \*   raceCancelled  jobs cancelled while queued/processing
                \*                  with a poll iteration suspended on them
                \*   cancelAnswered jobs whose cancel_download callback was
                \*                  answered 'Download cancelled'

\* the state of the file registry's own operations and of the file server
fileVars ==
  <<writes, cleans, sweep, req, rangeCall, sync, bot, purge, call>>

\* the state of the job handler
jobVars == <<nextCron, nextJobId, job, jobs, poller, timers>>

vars == <<env, now, nextCron, nextJobId, job, jobs, poller, timers, nextToken,
          tempFiles, disk, writes, cleans, sweep, req, rangeCall, sync,
          bot, purge, call, hist>>

Terminal == {"ready", "failed"}
Active == {"queued", "processing"}

\* ---------------------------------------------------------------- helpers
RECURSIVE SelectSeq2(_, _)
\* Array.filter over the Map's values, keeping insertion order
SelectSeq2(s, keep) ==
  IF s = <<>> THEN <<>>
  ELSE IF Head(s) \in keep THEN <<Head(s)>> \o SelectSeq2(Tail(s), keep)
       ELSE SelectSeq2(Tail(s), keep)

\* Map.has(id)
MapHas(m, j) == \E i \in 1..Len(m) : m[i] = j

InMap(j) == MapHas(jobs, j)

\* Map.delete(id)
MapDelete(m, j) == SelectSeq2(m, JobIds \ {j})

\* generateFilename(title): the file name depends on the title only
GenerateFilename(title) == title \o ".mp3"

Paths == { GenerateFilename(t) : t \in Titles }

PartialSize == 1          \* a file that is still being written

IdlePoller == [pc |-> "idle", queue |-> <<>>, cur |-> NoJob,
               tok |-> NoToken, exp |-> NoTime, fallback |-> FALSE]

\* the tail of pollJobs' for loop: pollJob returns at once for a job without
\* apiJobId, otherwise it issues getJobStatus and suspends
RECURSIVE NextPoll(_)
NextPoll(queue) ==
  IF queue = <<>> THEN IdlePoller
  ELSE IF ~job[Head(queue)].apiJobId THEN NextPoll(Tail(queue))
       ELSE [IdlePoller EXCEPT !.pc = "status", !.queue = Tail(queue),
                               !.cur = Head(queue)]

\* setTimeout(() => this.jobs.delete(j), d minutes).  Map.delete is
\* idempotent and an id never re-enters the Map, so of the timers pending for
\* a job only the earliest has an effect, and a timer for a job that already
\* left the Map has none: the earliest deadline per job in the Map is kept.
SetTimeout(tm, j, d) ==
  IF ~InMap(j) THEN tm
  ELSE IF tm[j] = NoTime \/ now + d < tm[j] THEN [tm EXCEPT ![j] = now + d]
       ELSE tm

\* the synchronous head of handleJobFailed: the three assignments
FailedFields(r, err) ==
  [r EXCEPT !.status = "failed",
            !.error = IF err = ErrNone THEN ErrJobFailed ELSE err,
            !.endTime = now]

\* --------------------------------- the registry and the file server at rest
\* the value parseInt gives when the text does not start with a digit
NaN == -1

\* req.get('Range') when the request has no Range header
NoHeader == <<>>

\* no read stream is piped into the response
NoStream == [start |-> NaN, end |-> NaN]

\* no response has been produced yet
NoResponse ==
  [status |-> 0, contentLength |-> <<>>, contentRange |-> <<>>,
   stream |-> NoStream]

\* no last byte position is given in the Range header
Omitted == -2

IdleRangeCall ==
  [fileSize |-> 0, form |-> "none", first |-> 0, last |-> Omitted,
   header |-> NoHeader,
   res |-> NoResponse]

MaxFileNow == 2           \* last minute of a registry run
ShortTtl == 1             \* TMP_TTL_SECONDS of the registry runs, in minutes
NumWriters == 1           \* registrations that may be in flight at once
NumCleaners == 2          \* cleanupTempFile invocations in flight at once
SweepPeriodMinutes == 15  \* setInterval(..., 15 * 60 * 1000)

Writers == 1..NumWriters
Cleaners == 1..NumCleaners

NoRec == [filePath |-> "", chatId |-> 0, jobId |-> NoJob, expiresAt |-> NoTime]
NoCount == -1

IdleWrite == [pc |-> "idle", kind |-> "none", tok |-> NoToken, rec |-> NoRec]

IdleClean == [pc |-> "idle", tok |-> NoToken, path |-> "", out |-> "none",
              by |-> "none"]

IdleSweep == [pc |-> "idle", expired |-> {}, todo |-> {}, next |-> NoTime,
              returned |-> NoCount]

IdlePurge == [pc |-> "idle", chatId |-> 0, chatTokens |-> {}, todo |-> {},
              returned |-> NoCount]

IdleCall == [fn |-> "none", arg |-> <<>>, out |-> <<>>]

\* what is known of the token when the request arrives (an observation)
NoSight == [time |-> NoTime, registered |-> FALSE, expiresAt |-> NoTime]

IdleReq == [pc |-> "idle", method |-> "none", tok |-> NoToken, rec |-> NoRec,
            range |-> NoHeader, seen |-> NoSight, headers |-> <<>>,
            res |-> NoResponse]

\* a file of zero bytes in tmpDir (0 stands for no file)
EmptyFile == -1

\* no processSyncDownload is running; the fields are those of the last one
IdleSync ==
  [pc |-> "idle", id |-> NoJob, chatId |-> 0, status |-> "none",
   error |-> ErrNone, path |-> "", tok |-> NoToken, size |-> NoFile,
   delivered |-> "none", cancelled |-> FALSE]

MaxRequests == 3          \* download requests of a run of the admission
PerMinute == 1            \* RATE_LIMIT_PER_MINUTE of the runs
PerHour == 2              \* RATE_LIMIT_PER_HOUR of the runs
PerDay == 2               \* RATE_LIMIT_PER_DAY of the runs

\* the chats of the admission runs and those in ADMIN_CHAT_IDS
ChatIds == {1, 2}
AdminChatIds == {2}

\* points of the three RateLimiterMemory instances
Points == [perMinute |-> PerMinute, perHour |-> PerHour, perDay |-> PerDay]

\* no request is being admitted; the fields are those of the last one.
\*   used[c][tier]  points chat c has consumed in the tier's window
\*   served         requests that have arrived
\*   checks         admission checks that allowed the request
\*   charged        consumeRateLimit calls made for the request
\*   outcome        "started": the request reached processYouTubeUrl,
\*                  "rejected": a check refused it, "aborted": a
\*                  consumeRateLimit threw
IdleBot ==
  [used |-> [c \in ChatIds |-> [tier \in DOMAIN Points |-> 0]],
   served |-> 0, pc |-> "idle", chat |-> 0, path |-> "none", checks |-> 0,
   charged |-> 0, outcome |-> "none"]

\* the registry and the file server at rest
FilesIdle ==
  /\ writes = [w \in Writers |-> IdleWrite]
  /\ cleans = [c \in Cleaners |-> IdleClean]
  /\ sweep = IdleSweep
  /\ req = IdleReq
  /\ rangeCall = IdleRangeCall
  /\ sync = IdleSync
  /\ bot = IdleBot
  /\ purge = IdlePurge
  /\ call = IdleCall

\* ------------------------------------------------------------------- Init
JobsStart ==
  /\ now = 0
  /\ nextCron = env.cron
  /\ nextJobId = 1
  /\ job = [j \in JobIds |-> NoJobRec]
  /\ jobs = <<>>
  /\ poller = [p \in Pollers |-> IdlePoller]
  /\ timers = [j \in JobIds |-> NoTime]
  /\ nextToken = 1
  /\ tempFiles = <<>>
  /\ disk = [f \in Paths |-> NoFile]
  /\ FilesIdle
  /\ hist = [submitFailed |-> {}, consec |-> [j \in JobIds |-> 0],
             lastResp |-> [j \in JobIds |-> "none"], raceCancelled |-> {},
             cancelAnswered |-> {}]

Init == env \in Envs /\ JobsStart

\* ---------------------------------------------------- processAsyncDownload
\* the AsyncJob record built once submitJob has resolved
NewJob(c, t, hasId) ==
  [status |-> "queued", apiJobId |-> hasId, chatId |-> c, title |-> t,
   startTime |-> now, endTime |-> NoTime, error |-> ErrNone, retryCount |-> 0]

\* submitJob resolved (hasId: the response carried a jobId): the job record
\* is created and put in the Map
SubmitOk(c, t, hasId) ==
  /\ nextJobId <= env.jobs
  /\ nextJobId' = nextJobId + 1
  /\ job' = [job EXCEPT ![nextJobId] = NewJob(c, t, hasId)]
  /\ jobs' = Append(jobs, nextJobId)
  /\ UNCHANGED fileVars
  /\ UNCHANGED <<env, now, nextCron, poller, timers, nextToken, tempFiles, disk,
                 hist>>

\* the job record built and stored before submitJob is awaited, and marked
\* failed in the catch
SubmitFailRecordsJob(c, t) ==
  /\ nextJobId <= env.jobs
  /\ nextJobId' = nextJobId + 1
  /\ job' = [job EXCEPT ![nextJobId] =
        [NewJob(c, t, FALSE) EXCEPT !.status = "failed",
                                    !.error = ErrMessage, !.endTime = now]]
  /\ jobs' = Append(jobs, nextJobId)
  /\ hist' = [hist EXCEPT !.submitFailed = @ \cup {nextJobId}]
  /\ UNCHANGED fileVars
  /\ UNCHANGED <<env, now, nextCron, poller, timers, nextToken, tempFiles,
                 disk>>

\* submitJob rejected: the catch calls handleJobError, which edits the chat
\* message; no job record is built
SubmitFail(c, t) ==
  /\ nextJobId <= env.jobs
  /\ nextJobId' = nextJobId + 1
  /\ hist' = [hist EXCEPT !.submitFailed = @ \cup {nextJobId}]
  /\ UNCHANGED fileVars
  /\ UNCHANGED <<env, now, nextCron, job, jobs, poller, timers, nextToken,
                 tempFiles, disk>>

\* ---------------------------------------------------------------- pollJobs
\* the setInterval callback: snapshot the active jobs, start on the first.
\* setInterval does not wait for the promise of the previous callback, so a
\* new invocation can start while another is suspended; the lowest free slot
\* is used.
PollJobs(p) ==
  /\ p <= env.slots
  /\ poller[p].pc = "idle"
  /\ \A q \in Pollers : q < p => poller[q].pc # "idle"
  /\ LET activeJobs ==
           SelectSeq2(jobs, {j \in JobIds : job[j].status \in Active})
     IN /\ NextPoll(activeJobs).pc # "idle"
        /\ poller' = [poller EXCEPT ![p] = NextPoll(activeJobs)]
  /\ UNCHANGED fileVars
  /\ UNCHANGED <<env, now, nextCron, nextJobId, job, jobs, timers, nextToken,
                 tempFiles, disk, hist>>

\* ----------------------------------------------------------------- pollJob
\* case 'queued': the local status is set back to queued when it differs
MirrorQueued(r) ==
  IF r.status # "queued" THEN [r EXCEPT !.status = "queued"] ELSE r

\* a slip in the 'processing' case: the assignment of the 'queued' case
MirrorProcessingAsQueued(r) == [r EXCEPT !.status = "queued"]

\* case 'processing'
MirrorProcessing(r) == [r EXCEPT !.status = "processing"]

\* handleJobCompleted up to its first await: status and endTime are set
\* before the download starts
CompletedFields(r) == [r EXCEPT !.status = "ready", !.endTime = now]

\* handleJobFailed(job, {error: err}) called from the invocation in slot p:
\* the assignments, the message edit (no effect on the state) and the
\* removal timer; then the for loop of pollJobs goes on
HandleJobFailed(p, err) ==
  LET j == poller[p].cur IN
  /\ job' = [job EXCEPT ![j] = FailedFields(@, err)]
  /\ timers' = SetTimeout(timers, j, GraceMinutes)
  /\ poller' = [poller EXCEPT ![p] = NextPoll(@.queue)]

\* whether handleJobCompleted throws at once on the response
MissingUrl(r) == ~r.url

\* getJobStatus resolved with response r: the switch of pollJob.  The
\* message edits of updateJobProgress change nothing in the state.
StatusResponse(p, r) ==
  LET j == poller[p].cur IN
  /\ poller[p].pc = "status"
  /\ env.leap => r.status \in Active
  /\ hist' = [hist EXCEPT !.consec[j] = 0, !.lastResp[j] = r.status]
  /\ CASE r.status = "queued" ->
            /\ job' = [job EXCEPT ![j] = MirrorQueued(@)]
            /\ poller' = [poller EXCEPT ![p] = NextPoll(@.queue)]
            /\ UNCHANGED timers
       [] r.status = "processing" ->
            /\ job' = [job EXCEPT ![j] = MirrorProcessing(@)]
            /\ poller' = [poller EXCEPT ![p] = NextPoll(@.queue)]
            /\ UNCHANGED timers
       [] r.status = "ready" /\ MissingUrl(r) ->
            HandleJobFailed(p, ErrNoUrl)
       [] r.status = "ready" /\ ~MissingUrl(r) ->
            /\ job' = [job EXCEPT ![j] = CompletedFields(@)]
            /\ poller' = [poller EXCEPT ![p].pc = "download"]
            /\ UNCHANGED timers
       [] r.status = "failed" ->
            HandleJobFailed(p, r.error)
  /\ UNCHANGED fileVars
  /\ UNCHANGED <<env, now, nextCron, nextJobId, jobs, nextToken, tempFiles, disk>>

\* the condition of the catch of pollJob for giving the job up
TooManyRetries(r) == r.retryCount >= RetryCeiling

\* getJobStatus rejected (transport error or timeout): the catch of pollJob
StatusError(p) ==
  LET j == poller[p].cur
      counted == [job EXCEPT ![j].retryCount = @ + 1]
  IN
  /\ poller[p].pc = "status"
  /\ job[j].retryCount < env.retries
  /\ hist' = [hist EXCEPT !.consec[j] = @ + 1, !.lastResp[j] = "error"]
  /\ IF TooManyRetries(counted[j])
     THEN /\ job' = [counted EXCEPT ![j] = FailedFields(@, ErrTooMany)]
          /\ timers' = SetTimeout(timers, j, GraceMinutes)
          /\ poller' = [poller EXCEPT ![p] = NextPoll(@.queue)]
     ELSE /\ job' = counted
          /\ poller' = [poller EXCEPT ![p] = NextPoll(@.queue)]
          /\ UNCHANGED timers
  /\ UNCHANGED fileVars
  /\ UNCHANGED <<env, now, nextCron, nextJobId, jobs, nextToken, tempFiles, disk>>

\* ------------------------------------------------------ handleJobCompleted
PathOf(p) == GenerateFilename(job[poller[p].cur].title)

\* the end of the try block: setTimeout(() => jobs.delete(job.id), 300000)
CompletionDone(p) ==
  /\ timers' = SetTimeout(timers, poller[p].cur, GraceMinutes)
  /\ poller' = [poller EXCEPT ![p] = NextPoll(@.queue)]

\* fileService.cleanupTempFile(token) up to its await: an unknown token
\* returns at once, a known one suspends in fs.unlink
CleanupOrDone(p) ==
  IF poller[p].tok \in DOMAIN tempFiles
  THEN /\ poller' = [poller EXCEPT ![p].pc = "unlink"]
       /\ UNCHANGED timers
  ELSE CompletionDone(p)

\* downloadFromUrl resolved; createTempFileFromStream starts: token and
\* expiresAt are computed and createWriteStream opens (truncates) the file
DownloadOk(p) ==
  /\ poller[p].pc = "download"
  /\ nextToken <= MaxTokens
  /\ nextToken' = nextToken + 1
  /\ disk' = [disk EXCEPT ![PathOf(p)] = PartialSize]
  /\ poller' = [poller EXCEPT ![p].pc = "write", ![p].tok = nextToken,
                              ![p].exp = now + TtlMinutes]
  /\ UNCHANGED fileVars
  /\ UNCHANGED <<env, now, nextCron, nextJobId, job, jobs, timers, tempFiles,
                 hist>>

\* downloadFromUrl rejected: the catch of handleJobCompleted
DownloadFail(p) ==
  /\ poller[p].pc = "download"
  /\ HandleJobFailed(p, ErrMessage)
  /\ UNCHANGED fileVars
  /\ UNCHANGED <<env, now, nextCron, nextJobId, jobs, nextToken, tempFiles, disk,
                 hist>>

\* a registration that rewrites every record of the registry
RegisterRewritingAll(tf, tok, rec) == [t \in DOMAIN tf \cup {tok} |-> rec]

\* this.tempFiles.set(urlToken, tempFile)
Register(tf, tok, rec) ==
  [t \in DOMAIN tf \cup {tok} |-> IF t = tok THEN rec ELSE tf[t]]

\* a cleanup that leaves the entry in the registry
KeepRegistered(tf, tok) == tf

\* this.tempFiles.delete(token)
Unregister(tf, tok) == [t \in DOMAIN tf \ {tok} |-> tf[t]]

\* the write stream finished with sz bytes: the TempFile is registered and
\* handleJobCompleted goes on to getFileSize
WriteOk(p, sz) ==
  LET j == poller[p].cur
      rec == [filePath |-> PathOf(p), chatId |-> job[j].chatId,
              jobId |-> j, expiresAt |-> poller[p].exp]
  IN
  /\ poller[p].pc = "write"
  /\ disk' = [disk EXCEPT ![PathOf(p)] = sz]
  /\ tempFiles' = Register(tempFiles, poller[p].tok, rec)
  /\ poller' = [poller EXCEPT ![p].pc = "size", ![p].exp = NoTime]
  /\ UNCHANGED fileVars
  /\ UNCHANGED <<env, now, nextCron, nextJobId, job, jobs, timers, nextToken,
                 hist>>

\* the stream or the write failed: the file is unlinked, nothing is
\* registered, the error reaches the catch of handleJobCompleted
WriteFail(p) ==
  /\ poller[p].pc = "write"
  /\ disk' = [disk EXCEPT ![PathOf(p)] = NoFile]
  /\ HandleJobFailed(p, ErrMessage)
  /\ UNCHANGED fileVars
  /\ UNCHANGED <<env, now, nextCron, nextJobId, jobs, nextToken, tempFiles, hist>>

\* the branch of handleJobCompleted on the measured size
FitsUpload(sz) == sz <= MaxFileSize

\* getFileSize resolved: the size decides between the inline upload and the
\* download link
SizeOk(p) ==
  LET sz == disk[PathOf(p)] IN
  /\ poller[p].pc = "size"
  /\ sz # NoFile
  /\ poller' = [poller EXCEPT ![p].pc =
        IF FitsUpload(sz) THEN "upload" ELSE "linksize"]
  /\ UNCHANGED fileVars
  /\ UNCHANGED <<env, now, nextCron, nextJobId, job, jobs, timers, nextToken,
                 tempFiles, disk, hist>>

\* getFileSize rejected (fs.stat failed)
SizeFail(p) ==
  /\ poller[p].pc = "size"
  /\ HandleJobFailed(p, ErrMessage)
  /\ UNCHANGED fileVars
  /\ UNCHANGED <<env, now, nextCron, nextJobId, jobs, nextToken, tempFiles, disk,
                 hist>>

\* uploadToTelegram: sendAudio (and deleteMessage) settled, then
\* handleJobCompleted calls cleanupTempFile
UploadOk(p) ==
  /\ poller[p].pc = "upload"
  /\ CleanupOrDone(p)
  /\ UNCHANGED fileVars
  /\ UNCHANGED <<env, now, nextCron, nextJobId, job, jobs, nextToken, tempFiles,
                 disk, hist>>

\* sendAudio rejected: the catch falls back to provideDownloadLink
UploadFail(p) ==
  /\ poller[p].pc = "upload"
  /\ poller' = [poller EXCEPT ![p].pc = "linksize", ![p].fallback = TRUE]
  /\ UNCHANGED fileVars
  /\ UNCHANGED <<env, now, nextCron, nextJobId, job, jobs, timers, nextToken,
                 tempFiles, disk, hist>>

\* provideDownloadLink: getFileSize resolved and the link message is sent.
\* After the fallback control is back in the if-branch of
\* handleJobCompleted, which calls cleanupTempFile; otherwise
\* handleJobCompleted ends.
LinkOk(p) ==
  /\ poller[p].pc = "linksize"
  /\ disk[PathOf(p)] # NoFile
  /\ IF poller[p].fallback THEN CleanupOrDone(p) ELSE CompletionDone(p)
  /\ UNCHANGED fileVars
  /\ UNCHANGED <<env, now, nextCron, nextJobId, job, jobs, nextToken, tempFiles,
                 disk, hist>>

\* provideDownloadLink: getFileSize rejected, the error reaches the catch of
\* handleJobCompleted
LinkFail(p) ==
  /\ poller[p].pc = "linksize"
  /\ HandleJobFailed(p, ErrMessage)
  /\ UNCHANGED fileVars
  /\ UNCHANGED <<env, now, nextCron, nextJobId, jobs, nextToken, tempFiles, disk,
                 hist>>

\* cleanupTempFile: fs.unlink settled (ok: the file was removed), the entry
\* is deleted from the registry, handleJobCompleted ends
UnlinkDone(p, ok) ==
  /\ poller[p].pc = "unlink"
  /\ ok => disk[PathOf(p)] # NoFile
  /\ disk' = IF ok THEN [disk EXCEPT ![PathOf(p)] = NoFile] ELSE disk
  /\ tempFiles' = Unregister(tempFiles, poller[p].tok)
  /\ CompletionDone(p)
  /\ UNCHANGED fileVars
  /\ UNCHANGED <<env, now, nextCron, nextJobId, job, jobs, nextToken, hist>>

\* --------------------------------------------------------------- cancelJob
\* the test cancelJob makes before it touches the job
CancelFinds(j) == InMap(j)

\* the assignments cancelJob makes to the job it found
CancelFields(r) ==
  [r EXCEPT !.status = "failed", !.error = ErrCancelled, !.endTime = now]

\* cancelJob(j) for a job it finds: the assignments, the message edit (no
\* effect on the state) and the removal timer; returns true.  For an id
\* that is not in the Map it returns false and changes nothing.
CancelJob(j) ==
  /\ CancelFinds(j)
  /\ job' = [job EXCEPT ![j] = CancelFields(@)]
  /\ timers' = SetTimeout(timers, j, CancelGraceMinutes)
  /\ hist' = [hist EXCEPT !.raceCancelled =
        IF job[j].status \in Active /\ \E p \in Pollers : poller[p].cur = j
        THEN @ \cup {j} ELSE @]
  /\ UNCHANGED fileVars
  /\ UNCHANGED <<env, now, nextCron, nextJobId, jobs, poller, nextToken,
                 tempFiles, disk>>

\* bot.handleCancelDownload(query, j), for the Cancel button that
\* updateJobProgress puts under the message of a job once a poll has found
\* it processing: the callback is answered 'Download cancelled' and a line
\* is logged; neither cancelJob nor anything else is called
HandleCancelDownload(j) ==
  /\ env.callbacks
  /\ InMap(j)
  /\ job[j].status = "processing"
  /\ j \notin hist.cancelAnswered
  /\ hist' = [hist EXCEPT !.cancelAnswered = @ \cup {j}]
  /\ UNCHANGED fileVars
  /\ UNCHANGED <<env, now, nextCron, nextJobId, job, jobs, poller, timers,
                 nextToken, tempFiles, disk>>

\* ------------------------------------------------------------------ timers
\* a setTimeout callback runs: this.jobs.delete(id)
TimerFire(j) ==
  /\ timers[j] # NoTime
  /\ timers[j] <= now
  /\ timers' = [timers EXCEPT ![j] = NoTime]
  /\ jobs' = MapDelete(jobs, j)
  /\ UNCHANGED fileVars
  /\ UNCHANGED <<env, now, nextCron, nextJobId, job, poller, nextToken, tempFiles,
                 disk, hist>>

\* the condition of cleanupOldJobs without its test of the age
IsOldEndedOnly(r) == r.endTime # NoTime /\ r.status # "processing"

\* the condition under which cleanupOldJobs deletes a job
IsOld(r) ==
  \/ now - r.startTime > MaxAgeMinutes
  \/ (r.endTime # NoTime /\ r.status # "processing")

\* the hourly cron callback
CleanupOldJobs ==
  /\ now = nextCron
  /\ nextCron' = nextCron + CronPeriodMinutes
  /\ LET keep == {j \in JobIds : job[j].status # "absent" /\ ~IsOld(job[j])}
     IN /\ jobs' = SelectSeq2(jobs, keep)
        /\ timers' = [j \in JobIds |-> IF j \in keep THEN timers[j]
                                       ELSE NoTime]
  /\ UNCHANGED fileVars
  /\ UNCHANGED <<env, now, nextJobId, job, poller, nextToken, tempFiles, disk,
                 hist>>

\* a minute passes, or the time up to the next callback; callbacks that
\* are due run first
AdvanceTime ==
  LET due == {nextCron} \cup {timers[j] : j \in {k \in JobIds :
                                                  timers[k] # NoTime}}
      next == IF env.leap THEN CHOOSE t \in due : \A u \in due : t <= u
              ELSE now + 1
  IN
  /\ nextCron > now
  /\ \A j \in JobIds : timers[j] # NoTime => timers[j] > now
  /\ next <= env.horizon
  /\ now' = next
  /\ UNCHANGED fileVars
  /\ UNCHANGED <<env, nextCron, nextJobId, job, jobs, poller, timers, nextToken,
                 tempFiles, disk, hist>>

\* -------------------------------------------------------------------- Next
Next ==
  \/ \E c \in Chats, t \in Titles, hasId \in BOOLEAN : SubmitOk(c, t, hasId)
  \/ \E c \in Chats, t \in Titles : SubmitFail(c, t)
  \/ \E p \in Pollers : PollJobs(p)
  \/ \E p \in Pollers, r \in Responses : StatusResponse(p, r)
  \/ \E p \in Pollers : StatusError(p)
  \/ \E p \in Pollers : DownloadOk(p)
  \/ \E p \in Pollers : DownloadFail(p)
  \/ \E p \in Pollers, sz \in FileSizes : WriteOk(p, sz)
  \/ \E p \in Pollers : WriteFail(p)
  \/ \E p \in Pollers : SizeOk(p)
  \/ \E p \in Pollers : SizeFail(p)
  \/ \E p \in Pollers : UploadOk(p)
  \/ \E p \in Pollers : UploadFail(p)
  \/ \E p \in Pollers : LinkOk(p)
  \/ \E p \in Pollers : LinkFail(p)
  \/ \E p \in Pollers, ok \in BOOLEAN : UnlinkDone(p, ok)
  \/ \E j \in JobIds : CancelJob(j)
  \/ \E j \in JobIds : HandleCancelDownload(j)
  \/ \E j \in JobIds : TimerFire(j)
  \/ CleanupOldJobs
  \/ AdvanceTime

Spec == Init /\ [][Next]_vars

\* ------------------------------------------------- a remote that never ends
\* The run in which the remote never finishes a job: a status poll is
\* answered 'queued' or 'processing' or it fails, or the job has no remote
\* id; the run lasts until the first hourly sweep after the job's 24 hours.
StuckEnv ==
  [jobs |-> 1, slots |-> 1, horizon |-> MaxAgeMinutes + CronPeriodMinutes,
   cron |-> CronPeriodMinutes, retries |-> MaxRetryCount, leap |-> TRUE,
   callbacks |-> FALSE]

StuckInit == env = StuckEnv /\ JobsStart

StuckNext ==
  \/ \E c \in Chats, t \in Titles, hasId \in BOOLEAN : SubmitOk(c, t, hasId)
  \/ \E p \in Pollers : PollJobs(p)
  \/ \E p \in Pollers, r \in Responses : StatusResponse(p, r)
  \/ \E p \in Pollers : StatusError(p)
  \/ \E j \in JobIds : TimerFire(j)
  \/ CleanupOldJobs
  \/ AdvanceTime

\* setInterval(pollJobs, 10 s), the hourly cron.schedule callback and the
\* setTimeout callbacks are run by the event loop whenever they are due,
\* and the clock goes on
SpecStuck ==
  /\ StuckInit
  /\ [][StuckNext]_vars
  /\ WF_vars(\E p \in Pollers : PollJobs(p))
  /\ WF_vars(\E j \in JobIds : TimerFire(j))
  /\ WF_vars(CleanupOldJobs)
  /\ WF_vars(AdvanceTime)

\* =============================================== FileServer: Range requests
\* Header values are sequences of characters, so that parsing and formatting
\* are computed as the code computes them.
DigitChars == <<"0", "1", "2", "3", "4", "5", "6", "7", "8", "9">>

IsDigit(c) == \E i \in 1..10 : DigitChars[i] = c

DigitValue(c) == (CHOOSE i \in 1..10 : DigitChars[i] = c) - 1

RECURSIVE ToDigits(_)
\* Number.prototype.toString for a non-negative integer
ToDigits(n) ==
  IF n < 10 THEN <<DigitChars[n + 1]>>
  ELSE ToDigits(n \div 10) \o <<DigitChars[(n % 10) + 1]>>

\* `${n}` in a template string
Str(n) == IF n = NaN THEN <<"N", "a", "N">> ELSE ToDigits(n)

RECURSIVE ParseDigits(_, _, _)
ParseDigits(s, acc, seen) ==
  IF s # <<>> /\ IsDigit(Head(s))
  THEN ParseDigits(Tail(s), 10 * acc + DigitValue(Head(s)), TRUE)
  ELSE IF seen THEN acc ELSE NaN

\* parseInt(s, 10): the longest prefix of decimal digits, NaN when there is
\* none (signs and white space do not occur in the texts parsed here: the
\* header is split at '-')
ParseInt(s) == ParseDigits(s, 0, FALSE)

\* whether pat occurs in s at position i
MatchAt(s, pat, i) ==
  /\ i + Len(pat) - 1 <= Len(s)
  /\ SubSeq(s, i, i + Len(pat) - 1) = pat

\* String.prototype.replace(/pat/, ''): the first occurrence is removed
ReplaceFirst(s, pat) ==
  IF \E i \in 1..Len(s) : MatchAt(s, pat, i)
  THEN LET i == CHOOSE k \in 1..Len(s) :
                  /\ MatchAt(s, pat, k)
                  /\ \A m \in 1..(k - 1) : ~MatchAt(s, pat, m)
       IN SubSeq(s, 1, i - 1) \o SubSeq(s, i + Len(pat), Len(s))
  ELSE s

RECURSIVE SplitAt(_, _, _)
SplitAt(s, sep, cur) ==
  IF s = <<>> THEN <<cur>>
  ELSE IF Head(s) = sep THEN <<cur>> \o SplitAt(Tail(s), sep, <<>>)
       ELSE SplitAt(Tail(s), sep, Append(cur, Head(s)))

\* String.prototype.split(sep) for a one-character separator
Split(s, sep) == SplitAt(s, sep, <<>>)

BytesPrefix == <<"b", "y", "t", "e", "s", "=">>

\* the comparisons of JavaScript: false when an operand is NaN
JsGe(a, b) == a # NaN /\ b # NaN /\ a >= b

JsGt(a, b) == a # NaN /\ b # NaN /\ a > b

\* the first byte position in the header
RangeStart(rangeHeader) ==
  ParseInt(Split(ReplaceFirst(rangeHeader, BytesPrefix), "-")[1])

\* the last byte position: parts[1] ? parseInt(parts[1], 10) : fileSize - 1
RangeEnd(rangeHeader, fileSize) ==
  LET parts == Split(ReplaceFirst(rangeHeader, BytesPrefix), "-")
  IN IF Len(parts) >= 2 /\ parts[2] # <<>> THEN ParseInt(parts[2])
     ELSE fileSize - 1

\* the range validation of handleRangeRequest with the test on the last
\* position left out
UnsatisfiableStartOnly(start, end, fileSize) ==
  JsGe(start, fileSize) \/ JsGt(start, end)

\* the range validation of handleRangeRequest
Unsatisfiable(start, end, fileSize) ==
  JsGe(start, fileSize) \/ JsGe(end, fileSize) \/ JsGt(start, end)

\* handleRangeRequest(_req, res, filePath, fileSize, rangeHeader), called
\* after handleFileDownload has set Content-Length to the file size: the
\* status, the two headers and the options of the read stream
HandleRangeRequest(fileSize, rangeHeader) ==
  LET start == RangeStart(rangeHeader)
      end == RangeEnd(rangeHeader, fileSize)
      chunkSize == IF start = NaN \/ end = NaN THEN NaN
                   ELSE (end - start) + 1
  IN IF Unsatisfiable(start, end, fileSize)
     THEN [status |-> 416,
           contentLength |-> Str(fileSize),
           contentRange |-> <<"b", "y", "t", "e", "s", " ", "*", "/">>
                              \o Str(fileSize),
           stream |-> NoStream]
     ELSE IF start = NaN \/ end = NaN
     \* fs.createReadStream throws ERR_OUT_OF_RANGE on a position that is
     \* not an integer; the catch of handleFileDownload answers 500 with a
     \* JSON body, the Content-Range set before the throw stays
     THEN [status |-> 500,
           contentLength |-> <<>>,
           contentRange |-> <<"b", "y", "t", "e", "s", " ">> \o Str(start)
                              \o <<"-">> \o Str(end) \o <<"/">>
                              \o Str(fileSize),
           stream |-> NoStream]
     ELSE [status |-> 206,
           contentLength |-> Str(chunkSize),
           contentRange |-> <<"b", "y", "t", "e", "s", " ">> \o Str(start)
                              \o <<"-">> \o Str(end) \o <<"/">>
                              \o Str(fileSize),
           stream |-> [start |-> start, end |-> end]]

\* ---- the calls of handleRangeRequest explored
RangeSizes == {1, 2, 1000}                      \* file sizes in bytes
RangePositions == {0, 1, 2, 999, 1000, 2000}    \* byte positions

\* the header text a client writes for first-last ("bytes=5-" when the last
\* position is omitted)
RangeHeaderOf(first, last) ==
  BytesPrefix \o ToDigits(first) \o <<"-">>
    \o (IF last = Omitted THEN <<>> ELSE ToDigits(last))

\* the header text of each form explored: "bytes" is first-last as above,
\* the others are the texts a careless client writes: a start that is no
\* number ("bytes=a-5"), no start ("bytes=-5"), an end that is no number
\* ("bytes=0-z"), no unit ("0-5")
RangeHeaderIn(form, first, last) ==
  LET lastText == IF last = Omitted THEN <<>> ELSE ToDigits(last) IN
  CASE form = "bytes" -> RangeHeaderOf(first, last)
    [] form = "nonNumericStart" -> BytesPrefix \o <<"a", "-">> \o lastText
    [] form = "missingStart" -> BytesPrefix \o <<"-">> \o lastText
    [] form = "nonNumericEnd" ->
         BytesPrefix \o ToDigits(first) \o <<"-", "z">>
    [] form = "noPrefix" -> ToDigits(first) \o <<"-">> \o lastText

\* ================================================== FileService registry
\* The registry and the file server are explored on their own, with the job
\* handler idle: registrations, deletions, the periodic sweep and download
\* requests arrive in any order.
Tokens == 1..MaxTokens
\* the file names callers pass: generateFilename of the video title
FileNames == { GenerateFilename(t) : t \in {"t", "u"} }

\* a registry run is shaped by the configured TTL, its length, the minute
\* at which the 15 minute sweep timer fires in it, and by what arrives from
\* outside: download requests, deletions asked for by the handlers, or
\* per-chat cleanups (the only runs in which the owning chat matters, and
\* so the only ones with two chats)
FileEnvs ==
  { [ttl |-> ShortTtl, horizon |-> MaxFileNow, sweepAt |-> m,
     requests |-> k = "requests", deletes |-> k = "deletes",
     purges |-> k = "purges"] :
      m \in 0..MaxFileNow, k \in {"requests", "deletes", "purges"} }

\* an expiry test that never fires
NeverExpired(rec, t) == FALSE

\* the test of getTempFile, cleanupExpiredFiles and getStorageStats:
\* tempFile.expiresAt < new Date()
IsExpired(rec, t) == rec.expiresAt < t

\* a cleanupTempFile invocation can be started
HasFree(cl) == \E c \in Cleaners : cl[c].pc = "idle"

FreeCleaner(cl) ==
  CHOOSE c \in Cleaners :
    cl[c].pc = "idle" /\ \A d \in Cleaners : d < c => cl[d].pc # "idle"

\* cleanupTempFile(tok) for a registered token, up to its await: the entry
\* is read and fs.unlink is issued
StartCleanup(cl, tf, tok, by) ==
  [cl EXCEPT ![FreeCleaner(cl)] =
     [pc |-> "unlink", tok |-> tok, path |-> tf[tok].filePath,
      out |-> "none", by |-> by]]

\* a response without artifact bytes (the JSON error bodies)
ErrorResponse(status) == [NoResponse EXCEPT !.status = status]

\* the whole file is piped into the response (status 200 by default)
FullResponse(fileSize) ==
  [status |-> 200, contentLength |-> Str(fileSize), contentRange |-> <<>>,
   stream |-> [start |-> 0, end |-> fileSize - 1]]

\* the request is over: the response is kept for inspection, with the
\* headers res.set gave it
Responded(res) == [IdleReq EXCEPT !.res = res, !.headers = req.headers]

\* HEAD /download/:token answered by handleFileInfo
HeadRouteToFileInfo == "handleFileInfo"

\* the handler Express runs for HEAD /download/:token: the route added with
\* app.get comes first and a get route answers HEAD requests when it has no
\* head handler of its own, so the app.head route after it is never reached
HeadRoute == "handleFileDownload"

\* res.set({...}) of the handler, Content-Length apart: every file of the
\* model ends in .mp3, which getFileInfo maps to audio/mpeg
ResponseHeaders(handler, filePath) ==
  LET common == ("Content-Type" :> "audio/mpeg")
                  @@ ("Cache-Control" :> "no-cache")
                  @@ ("Accept-Ranges" :> "bytes")
  IN IF handler = "handleFileInfo" THEN common
     ELSE common @@ ("Content-Disposition" :>
                       ("attachment; filename=\"" \o filePath \o "\""))

\* ---- createTempFileFromStream ("stream") and saveTempFile ("buffer")
\* the synchronous head: file path, token and expiresAt are computed and
\* the file is opened for writing (created or truncated)
RegisterStart(w, kind, c, j, f) ==
  /\ writes[w].pc = "idle"
  /\ nextToken <= MaxTokens
  /\ nextToken' = nextToken + 1
  /\ disk' = [disk EXCEPT ![f] = PartialSize]
  /\ writes' = [writes EXCEPT ![w] =
        [pc |-> "write", kind |-> kind, tok |-> nextToken,
         rec |-> [filePath |-> f, chatId |-> c, jobId |-> j,
                  expiresAt |-> now + env.ttl]]]
  /\ hist' = [hist EXCEPT !.sweptPaths = @ \ {f}, !.holder[f] = nextToken]
  /\ UNCHANGED <<call, jobVars, sync, bot, purge>>
  /\ UNCHANGED <<env, now, tempFiles, cleans, sweep, req, rangeCall>>

\* the write finished: this.tempFiles.set(urlToken, tempFile).  A file
\* unlinked while it was written stays absent.
RegisterOk(w, sz) ==
  LET wr == writes[w] IN
  /\ wr.pc = "write"
  /\ disk' = IF disk[wr.rec.filePath] = NoFile THEN disk
             ELSE [disk EXCEPT ![wr.rec.filePath] = sz]
  /\ tempFiles' = Register(tempFiles, wr.tok, wr.rec)
  /\ writes' = [writes EXCEPT ![w] = IdleWrite]
  /\ hist' = [hist EXCEPT !.registered = @ \cup {wr.tok}]
  /\ UNCHANGED <<call, jobVars, sync, bot, purge>>
  /\ UNCHANGED <<env, now, nextToken, cleans, sweep, req, rangeCall>>

\* what a failed registration leaves at the path.  createTempFileFromStream
\* unlinks the file in its catch (unlinked: fs.unlink succeeded);
\* saveTempFile only logs and rethrows.
AfterFailedWrite(kind, unlinked, d, f) ==
  IF kind = "stream" /\ unlinked THEN [d EXCEPT ![f] = NoFile] ELSE d

\* the write failed: nothing is registered and the error propagates
RegisterFail(w, unlinked) ==
  LET wr == writes[w] IN
  /\ wr.pc = "write"
  /\ unlinked => (wr.kind = "stream" /\ disk[wr.rec.filePath] # NoFile)
  /\ disk' = AfterFailedWrite(wr.kind, unlinked, disk, wr.rec.filePath)
  /\ writes' = [writes EXCEPT ![w] = IdleWrite]
  /\ hist' = [hist EXCEPT !.holder[wr.rec.filePath] =
        IF unlinked THEN NoToken ELSE @]
  /\ UNCHANGED <<call, jobVars, sync, bot, purge>>
  /\ UNCHANGED <<env, now, nextToken, tempFiles, cleans, sweep, req,
                 rangeCall>>

\* ---- cleanupTempFile
\* cleanupTempFile(tok) called by a handler (bot.handleDeleteFile, the
\* download handlers): an unknown token returns at once
DeleteFile(tok) ==
  /\ env.deletes
  /\ tok \in DOMAIN tempFiles
  /\ HasFree(cleans)
  /\ cleans' = StartCleanup(cleans, tempFiles, tok, "delete")
  /\ UNCHANGED <<call, jobVars, sync, bot, purge>>
  /\ UNCHANGED <<env, now, nextToken, tempFiles, disk, writes, sweep, req,
                 rangeCall, hist>>

\* fs.unlink is carried out: "ok" removes the file, "ENOENT" finds none,
\* "EIO" is any other failure (the file stays)
UnlinkEffect(c, out) ==
  LET cl == cleans[c] IN
  /\ cl.pc = "unlink"
  /\ (out = "ENOENT") = (disk[cl.path] = NoFile)
  /\ disk' = IF out = "ok" THEN [disk EXCEPT ![cl.path] = NoFile] ELSE disk
  /\ cleans' = [cleans EXCEPT ![c].pc = "settled", ![c].out = out]
  /\ hist' = [hist EXCEPT
        !.sweptPaths =
           IF out = "ok" /\ cl.by = "sweep" THEN @ \cup {cl.path} ELSE @,
        !.holder[cl.path] = IF out = "ok" THEN NoToken ELSE @]
  /\ UNCHANGED <<call, jobVars, sync, bot, purge>>
  /\ UNCHANGED <<env, now, nextToken, tempFiles, writes, sweep, req,
                 rangeCall>>

\* a catch that lets the failure of fs.unlink through
RethrownOnFailure(out) == out = "EIO"

\* whether the error of fs.unlink leaves cleanupTempFile: the catch logs a
\* warning and does not rethrow, so this.tempFiles.delete(token) is reached
Rethrown(out) == FALSE

\* the for loop of cleanupExpiredFiles goes on after a cleanupTempFile has
\* returned: tokens no longer registered return at once, the next
\* registered one suspends in fs.unlink; after the last the count is
\* returned
SweepContinue(cl, tf) ==
  LET remaining == sweep.todo \cap DOMAIN tf IN
  IF remaining = {}
  THEN /\ sweep' = [sweep EXCEPT !.pc = "idle", !.expired = {}, !.todo = {},
                                 !.returned = Cardinality(sweep.expired)]
       /\ cleans' = cl
  ELSE \E t \in remaining :
         /\ sweep' = [sweep EXCEPT !.todo = remaining \ {t}]
         /\ cleans' = StartCleanup(cl, tf, t, "sweep")

\* the second for loop of cleanupChatFiles goes on after a cleanupTempFile
\* has returned, as in cleanupExpiredFiles; chatTokens.length is returned
PurgeContinue(cl, tf) ==
  LET remaining == purge.todo \cap DOMAIN tf IN
  IF remaining = {}
  THEN /\ purge' = [purge EXCEPT !.pc = "idle", !.todo = {},
                                 !.returned = Cardinality(purge.chatTokens)]
       /\ cleans' = cl
  ELSE \E t \in remaining :
         /\ purge' = [purge EXCEPT !.todo = remaining \ {t}]
         /\ cleans' = StartCleanup(cl, tf, t, "chat")

\* the continuation of cleanupTempFile after the await: the entry is
\* deleted from the registry and the caller resumes
CleanupReturn(c) ==
  LET cl == cleans[c]
      tf == IF Rethrown(cl.out) THEN tempFiles
            ELSE Unregister(tempFiles, cl.tok)
      freed == [cleans EXCEPT ![c] = IdleClean]
  IN
  /\ cl.pc = "settled"
  /\ tempFiles' = tf
  /\ hist' = [hist EXCEPT !.raised = @ \/ Rethrown(cl.out),
                          !.deleted = @ \cup {cl.tok}]
  /\ CASE cl.by = "sweep" ->
            /\ SweepContinue(freed, tf)
            /\ UNCHANGED <<req, purge>>
       [] cl.by = "chat" ->
            /\ PurgeContinue(freed, tf)
            /\ UNCHANGED <<req, sweep>>
       [] cl.by = "server" ->
            /\ cleans' = freed
            /\ req' = Responded(ErrorResponse(404))
            /\ UNCHANGED <<sweep, purge>>
       [] OTHER ->
            /\ cleans' = freed
            /\ UNCHANGED <<sweep, req, purge>>
  /\ UNCHANGED <<call, jobVars, sync, bot>>
  /\ UNCHANGED <<env, now, nextToken, disk, writes, rangeCall>>

\* ---- cleanupExpiredFiles
\* the tokens cleanupExpiredFiles collects
ExpiredTokens(tf, t) == {k \in DOMAIN tf : IsExpired(tf[k], t)}

\* the interval callback: the expired tokens are collected and
\* cleanupTempFile is awaited for each in turn (any order is explored)
SweepStart ==
  LET expired == ExpiredTokens(tempFiles, now) IN
  /\ sweep.pc = "idle"
  /\ now = sweep.next
  /\ IF expired = {}
     THEN /\ sweep' = [sweep EXCEPT !.expired = {}, !.returned = 0,
                                    !.next = @ + SweepPeriodMinutes]
          /\ UNCHANGED cleans
     ELSE /\ HasFree(cleans)
          /\ \E t \in expired :
               /\ sweep' = [pc |-> "run", expired |-> expired,
                            todo |-> expired \ {t},
                            next |-> sweep.next + SweepPeriodMinutes,
                            returned |-> NoCount]
               /\ cleans' = StartCleanup(cleans, tempFiles, t, "sweep")
  /\ UNCHANGED <<call, jobVars, sync, bot, purge>>
  /\ UNCHANGED <<env, now, nextToken, tempFiles, disk, writes, req, rangeCall,
                 hist>>

\* ---- cleanupChatFiles
\* the tokens cleanupChatFiles(chatId) collects
ChatTokens(tf, chatId) == {k \in DOMAIN tf : tf[k].chatId = chatId}

\* cleanupChatFiles(chatId) up to its first await: the tokens of the chat
\* are collected and cleanupTempFile is awaited for each in turn; with no
\* token 0 is returned at once
CleanupChatFiles(chatId) ==
  LET chatTokens == ChatTokens(tempFiles, chatId) IN
  /\ env.purges
  /\ purge.pc = "idle"
  /\ IF chatTokens = {}
     THEN /\ purge' = [IdlePurge EXCEPT !.chatId = chatId, !.returned = 0]
          /\ UNCHANGED cleans
     ELSE /\ HasFree(cleans)
          /\ \E t \in chatTokens :
               /\ purge' = [pc |-> "run", chatId |-> chatId,
                            chatTokens |-> chatTokens,
                            todo |-> chatTokens \ {t}, returned |-> NoCount]
               /\ cleans' = StartCleanup(cleans, tempFiles, t, "chat")
  /\ UNCHANGED <<call, jobVars, sync, bot>>
  /\ UNCHANGED <<env, now, nextToken, tempFiles, disk, writes, sweep, req,
                 rangeCall, hist>>

\* ---- GET /download/:token
\* handleFileDownload up to its first await: getTempFile(token).  An expired
\* entry starts a cleanupTempFile that nobody awaits and counts as not
\* found; a found one goes on to fs.pathExists.
GetStart(method, tok, range) ==
  LET found == tok \in DOMAIN tempFiles
      sight == [time |-> now, registered |-> found,
                expiresAt |-> IF found THEN tempFiles[tok].expiresAt
                              ELSE NoTime]
      arrived == [IdleReq EXCEPT !.method = method, !.tok = tok,
                                 !.range = range, !.seen = sight]
      notFound == [IdleReq EXCEPT !.res = ErrorResponse(404)]
      handler == IF method = "HEAD" THEN HeadRoute ELSE "handleFileDownload"
  IN
  /\ env.requests
  /\ req.pc = "idle"
  /\ IF found /\ IsExpired(tempFiles[tok], now)
     THEN /\ HasFree(cleans)
          /\ cleans' = StartCleanup(cleans, tempFiles, tok, "resolve")
          /\ req' = notFound
          /\ hist' = [hist EXCEPT !.goneByResolve = @ \cup {tok}]
     ELSE IF ~found
     THEN /\ req' = notFound
          /\ UNCHANGED <<cleans, hist>>
     \* handleFileInfo goes to fs.stat without fs.pathExists
     ELSE /\ req' = [arrived EXCEPT
                       !.pc = IF handler = "handleFileInfo" THEN "stat"
                              ELSE "exists",
                       !.rec = tempFiles[tok]]
          /\ UNCHANGED <<cleans, hist>>
  /\ UNCHANGED <<call, jobVars, sync, bot, purge>>
  /\ UNCHANGED <<env, now, nextToken, tempFiles, disk, writes, sweep,
                 rangeCall>>

\* fs.pathExists resolved: a missing file is cleaned up and answered 404
ExistsDone ==
  /\ req.pc = "exists"
  /\ IF disk[req.rec.filePath] # NoFile
     THEN /\ req' = [req EXCEPT !.pc = "stat"]
          /\ UNCHANGED cleans
     ELSE IF req.tok \in DOMAIN tempFiles
     THEN /\ HasFree(cleans)
          /\ cleans' = StartCleanup(cleans, tempFiles, req.tok, "server")
          /\ req' = [req EXCEPT !.pc = "cleanup"]
     ELSE /\ req' = Responded(ErrorResponse(404))
          /\ UNCHANGED cleans
  /\ UNCHANGED <<call, jobVars, sync, bot, purge>>
  /\ UNCHANGED <<env, now, nextToken, tempFiles, disk, writes, sweep,
                 rangeCall, hist>>

\* fs.stat settled: the headers are set and the range or the whole file is
\* piped; a failing stat is answered 500.  handleFileInfo answers a failing
\* stat 404 and ends the response after its headers.
StatDone ==
  LET fileSize == disk[req.rec.filePath]
      ranged == HandleRangeRequest(fileSize, req.range)
      handler == IF req.method = "HEAD" THEN HeadRoute
                 ELSE "handleFileDownload"
      headers == ResponseHeaders(handler, req.rec.filePath)
  IN
  /\ req.pc = "stat"
  /\ req' =
       IF handler = "handleFileInfo"
       THEN IF fileSize = NoFile
            THEN Responded(ErrorResponse(404))
            ELSE [Responded([FullResponse(fileSize) EXCEPT
                               !.stream = NoStream])
                    EXCEPT !.headers = headers]
       ELSE IF fileSize = NoFile
       THEN Responded(ErrorResponse(500))
       ELSE IF req.range = NoHeader
       THEN [req EXCEPT !.pc = "stream", !.headers = headers,
                        !.res = FullResponse(fileSize)]
       ELSE IF ranged.status \in {416, 500}
       THEN [Responded(ranged) EXCEPT !.headers = headers]
       ELSE [req EXCEPT !.pc = "stream", !.headers = headers,
                        !.res = ranged]
  /\ UNCHANGED <<call, jobVars, sync, bot, purge>>
  /\ UNCHANGED <<env, now, nextToken, tempFiles, disk, writes, cleans, sweep,
                 rangeCall, hist>>

\* the read stream opens and the first chunk is piped: status and headers
\* are sent (a HEAD response carries no body); when the file has gone the
\* 'error' handler answers 500, the headers not being sent yet
StreamOpen ==
  /\ req.pc = "stream"
  /\ req' = IF disk[req.rec.filePath] = NoFile
            THEN Responded(ErrorResponse(500))
            ELSE IF req.method = "HEAD"
            THEN [req EXCEPT !.pc = "streaming", !.res.stream = NoStream]
            ELSE [req EXCEPT !.pc = "streaming"]
  /\ UNCHANGED <<call, jobVars, sync, bot, purge>>
  /\ UNCHANGED <<env, now, nextToken, tempFiles, disk, writes, cleans, sweep,
                 rangeCall, hist>>

\* the read stream settles after the headers were sent.  "end": pipe ends
\* the response.  "error": the 'error' handler logs and, res.headersSent
\* being true, does nothing else; pipe does not end the destination when
\* the source fails, so the response stays open.
StreamSettle(outcome) ==
  /\ req.pc = "streaming"
  /\ req' = IF outcome = "end" THEN Responded(req.res)
            ELSE [req EXCEPT !.pc = "broken"]
  /\ UNCHANGED <<call, jobVars, sync, bot, purge>>
  /\ UNCHANGED <<env, now, nextToken, tempFiles, disk, writes, cleans, sweep,
                 rangeCall, hist>>

\* time passes, a sweep that is due running first: minute by minute up
\* to MaxFileNow, then on to the minute at which the sweep timer fires next
FilesTick ==
  LET later == IF now < MaxFileNow THEN now + 1 ELSE sweep.next IN
  /\ later <= env.horizon
  /\ sweep.next > now
  /\ now' = later
  /\ UNCHANGED <<call, jobVars, sync, bot, purge>>
  /\ UNCHANGED <<env, nextToken, tempFiles, disk, writes, cleans, sweep, req,
                 rangeCall, hist>>

\* the sizes of the files that stay registered: above the upload limit
KeptSizes == {MaxFileSize + 1}

\* the Range headers of the requests explored with the registry
FileRanges == {NoHeader, RangeHeaderOf(0, 0)}

\* observations of a registry run:
\*   goneByResolve  tokens getTempFile reported as expired
\*   sweptPaths     paths whose file the sweep removed (and nobody rewrote)
\*   registered     tokens that were put in the registry
\*   deleted        tokens for which a cleanupTempFile has returned
\*   holder[f]      the token whose bytes are at path f
\*   raised         a cleanupTempFile call raised an error
FilesHist ==
  [goneByResolve |-> {}, sweptPaths |-> {}, registered |-> {},
   deleted |-> {}, holder |-> [f \in FileNames |-> NoToken],
   raised |-> FALSE]

FilesInit ==
  /\ env \in FileEnvs
  /\ now = 0
  /\ nextCron = NoTime
  /\ nextJobId = 1
  /\ job = [j \in JobIds |-> NoJobRec]
  /\ jobs = <<>>
  /\ poller = [p \in Pollers |-> IdlePoller]
  /\ timers = [j \in JobIds |-> NoTime]
  /\ nextToken = 1
  /\ tempFiles = <<>>
  /\ disk = [f \in FileNames |-> NoFile]
  /\ writes = [w \in Writers |-> IdleWrite]
  /\ cleans = [c \in Cleaners |-> IdleClean]
  /\ sweep = [IdleSweep EXCEPT !.next = env.sweepAt]
  /\ req = IdleReq
  /\ rangeCall = IdleRangeCall
  /\ sync = IdleSync
  /\ bot = IdleBot
  /\ purge = IdlePurge
  /\ call = IdleCall
  /\ hist = FilesHist

FilesNext ==
  \/ \E w \in Writers, kind \in {"stream", "buffer"}, f \in FileNames,
        c \in (IF env.purges THEN ChatIds ELSE Chats) :
          RegisterStart(w, kind, c, 1, f)
  \/ \E w \in Writers, sz \in KeptSizes : RegisterOk(w, sz)
  \/ \E w \in Writers, unlinked \in BOOLEAN : RegisterFail(w, unlinked)
  \/ \E tok \in Tokens : DeleteFile(tok)
  \/ \E c \in Cleaners, out \in {"ok", "ENOENT", "EIO"} : UnlinkEffect(c, out)
  \/ \E c \in Cleaners : CleanupReturn(c)
  \/ SweepStart
  \/ \E c \in ChatIds : CleanupChatFiles(c)
  \/ \E method \in {"GET", "HEAD"}, tok \in Tokens, range \in FileRanges :
       GetStart(method, tok, range)
  \/ ExistsDone
  \/ StatDone
  \/ StreamOpen
  \/ \E outcome \in {"end", "error"} : StreamSettle(outcome)
  \/ FilesTick

SpecFiles == FilesInit /\ [][FilesNext]_vars

\* ---- the registry left to its sweep timer
\* Runs that last one sweep period beyond the first firing of the timer:
\* nothing arrives but registrations, no token is looked up or deleted by
\* a handler.
SweepEnvs ==
  { [ttl |-> ShortTtl, horizon |-> m + SweepPeriodMinutes, sweepAt |-> m,
     requests |-> FALSE, deletes |-> FALSE, purges |-> FALSE] :
      m \in 0..MaxFileNow }

SweepInit ==
  /\ env \in SweepEnvs
  /\ now = 0
  /\ nextCron = NoTime
  /\ nextJobId = 1
  /\ job = [j \in JobIds |-> NoJobRec]
  /\ jobs = <<>>
  /\ poller = [p \in Pollers |-> IdlePoller]
  /\ timers = [j \in JobIds |-> NoTime]
  /\ nextToken = 1
  /\ tempFiles = <<>>
  /\ disk = [f \in FileNames |-> NoFile]
  /\ writes = [w \in Writers |-> IdleWrite]
  /\ cleans = [c \in Cleaners |-> IdleClean]
  /\ sweep = [IdleSweep EXCEPT !.next = env.sweepAt]
  /\ req = IdleReq
  /\ rangeCall = IdleRangeCall
  /\ sync = IdleSync
  /\ bot = IdleBot
  /\ purge = IdlePurge
  /\ call = IdleCall
  /\ hist = FilesHist

SweepNext ==
  \/ \E w \in Writers, kind \in {"stream", "buffer"}, f \in FileNames,
        c \in Chats : RegisterStart(w, kind, c, 1, f)
  \/ \E w \in Writers, sz \in KeptSizes : RegisterOk(w, sz)
  \/ \E w \in Writers, unlinked \in BOOLEAN : RegisterFail(w, unlinked)
  \/ \E c \in Cleaners, out \in {"ok", "ENOENT", "EIO"} : UnlinkEffect(c, out)
  \/ \E c \in Cleaners : CleanupReturn(c)
  \/ SweepStart
  \/ FilesTick

\* the interval timer fires when due, time goes on, and the promises of
\* fs.unlink settle and their continuations run (the event loop runs every
\* pending callback); registrations may or may not arrive
SpecSweep ==
  /\ SweepInit
  /\ [][SweepNext]_vars
  /\ WF_vars(SweepStart)
  /\ WF_vars(FilesTick)
  /\ \A c \in Cleaners :
       /\ WF_vars(\E out \in {"ok", "ENOENT", "EIO"} : UnlinkEffect(c, out))
       /\ WF_vars(CleanupReturn(c))

\* ---- requests racing with deletions
\* Runs in which download requests, deletions asked for by the handlers
\* and per-chat cleanups all arrive, within one minute: nothing expires
\* and the sweep timer does not fire.
ResolveInit ==
  /\ env = [ttl |-> ShortTtl, horizon |-> 0, sweepAt |-> SweepPeriodMinutes,
            requests |-> TRUE, deletes |-> TRUE, purges |-> TRUE]
  /\ now = 0
  /\ nextCron = NoTime
  /\ nextJobId = 1
  /\ job = [j \in JobIds |-> NoJobRec]
  /\ jobs = <<>>
  /\ poller = [p \in Pollers |-> IdlePoller]
  /\ timers = [j \in JobIds |-> NoTime]
  /\ nextToken = 1
  /\ tempFiles = <<>>
  /\ disk = [f \in FileNames |-> NoFile]
  /\ writes = [w \in Writers |-> IdleWrite]
  /\ cleans = [c \in Cleaners |-> IdleClean]
  /\ sweep = [IdleSweep EXCEPT !.next = env.sweepAt]
  /\ req = IdleReq
  /\ rangeCall = IdleRangeCall
  /\ sync = IdleSync
  /\ bot = IdleBot
  /\ purge = IdlePurge
  /\ call = IdleCall
  /\ hist = FilesHist

ResolveNext ==
  \/ \E w \in Writers, kind \in {"stream", "buffer"}, f \in FileNames,
        c \in Chats : RegisterStart(w, kind, c, 1, f)
  \/ \E w \in Writers, sz \in KeptSizes : RegisterOk(w, sz)
  \/ \E tok \in Tokens : DeleteFile(tok)
  \/ \E c \in Chats : CleanupChatFiles(c)
  \/ \E c \in Cleaners, out \in {"ok", "ENOENT", "EIO"} : UnlinkEffect(c, out)
  \/ \E c \in Cleaners : CleanupReturn(c)
  \/ \E method \in {"GET", "HEAD"}, tok \in Tokens, range \in FileRanges :
       GetStart(method, tok, range)
  \/ ExistsDone
  \/ StatDone
  \/ StreamOpen
  \/ \E outcome \in {"end", "error"} : StreamSettle(outcome)

SpecResolve == ResolveInit /\ [][ResolveNext]_vars

\* ---- calls of handleRangeRequest on their own
RangeInit ==
  /\ env \in FileEnvs /\ env.sweepAt = 0 /\ env.requests
  /\ now = 0
  /\ nextCron = NoTime
  /\ nextJobId = 1
  /\ job = [j \in JobIds |-> NoJobRec]
  /\ jobs = <<>>
  /\ poller = [p \in Pollers |-> IdlePoller]
  /\ timers = [j \in JobIds |-> NoTime]
  /\ nextToken = 1
  /\ tempFiles = <<>>
  /\ disk = [f \in FileNames |-> NoFile]
  /\ writes = [w \in Writers |-> IdleWrite]
  /\ cleans = [c \in Cleaners |-> IdleClean]
  /\ sweep = IdleSweep
  /\ req = IdleReq
  /\ sync = IdleSync
  /\ bot = IdleBot
  /\ purge = IdlePurge
  /\ call = IdleCall
  /\ hist = FilesHist
  /\ \E n \in RangeSizes, first \in RangePositions,
        last \in RangePositions \cup {Omitted},
        form \in {"bytes", "nonNumericStart", "missingStart",
                  "nonNumericEnd", "noPrefix"} :
       rangeCall = [fileSize |-> n, form |-> form, first |-> first,
                    last |-> last,
                    header |-> RangeHeaderIn(form, first, last),
                    res |-> NoResponse]

\* handleRangeRequest runs on the call
RangeApply ==
  /\ rangeCall.res = NoResponse
  /\ rangeCall' = [rangeCall EXCEPT
        !.res = HandleRangeRequest(rangeCall.fileSize, rangeCall.header)]
  /\ UNCHANGED <<call, jobVars, sync, bot, purge>>
  /\ UNCHANGED <<env, now, nextToken, tempFiles, disk, writes, cleans, sweep,
                 req, hist>>

RangeNext == RangeApply

SpecRange == RangeInit /\ [][RangeNext]_vars

\* ============================================ DownloadHandler: sync path
\* processSyncDownload, one invocation at a time, with the registry it
\* uses.  Each action is the stretch of the handler up to its next await
\* that can fail.
\* generateSecureFilename(title): `${timestamp}_${uuid}_${sanitized}.mp3`,
\* a name no other download has (n stands for timestamp and uuid)
GenerateSecureFilename(n, title) ==
  ToString(n) \o "_" \o title \o ".mp3"

\* the catch and the finally of processSyncDownload: the job fails with the
\* message of the error and the handler returns
SyncFailed(err) ==
  [sync EXCEPT !.pc = "idle", !.status = "failed", !.error = err]

\* handleDownload has passed its checks: the job is created 'processing'
\* and put in activeDownloads, the status message is edited and
\* downloadStream is requested
SyncStart(c, t) ==
  /\ sync.pc = "idle"
  /\ nextJobId <= MaxJobs
  /\ nextJobId' = nextJobId + 1
  /\ sync' = [IdleSync EXCEPT !.pc = "stream", !.id = nextJobId,
                              !.chatId = c, !.status = "processing",
                              !.path = GenerateSecureFilename(nextJobId, t)]
  /\ UNCHANGED <<env, now, nextCron, job, jobs, poller, timers, nextToken,
                 tempFiles, disk, writes, cleans, sweep, req, rangeCall,
                 bot, purge, call, hist>>

\* downloadStream and the pipe into fs.createWriteStream(filePath) settle.
\*   "rejected"     downloadStream threw, no file was opened
\*   "streamError"  the stream failed after some bytes: the write stream
\*                  is destroyed, the file unlinked, the promise rejected
\*   "empty"        'finish' with no byte received: the handler throws and
\*                  rejects; nothing unlinks the file
\*   "finish"       'finish' with sz bytes: the file is read back
SyncStream(outcome, sz) ==
  /\ sync.pc = "stream"
  /\ CASE outcome = "rejected" ->
            /\ sync' = SyncFailed(ErrMessage)
            /\ UNCHANGED disk
       [] outcome = "streamError" ->
            /\ sync' = SyncFailed("stream error")
            /\ disk' = [disk EXCEPT ![sync.path] = NoFile]
       [] outcome = "empty" ->
            /\ sync' = SyncFailed("No data received from stream")
            /\ disk' = [disk EXCEPT ![sync.path] = EmptyFile]
       [] outcome = "finish" ->
            /\ sync' = [sync EXCEPT !.pc = "save"]
            /\ disk' = [disk EXCEPT ![sync.path] = sz]
  /\ UNCHANGED <<call, jobVars, bot, purge>>
  /\ UNCHANGED <<env, now, nextToken, tempFiles, writes, cleans, sweep, req,
                 rangeCall, hist>>

\* fileService.saveTempFile(fileBuffer, chatId, jobId, secureFilename): the
\* buffer is written to the same path and the TempFile registered; a failed
\* write rejects and leaves the file
SyncSave(ok) ==
  /\ sync.pc = "save"
  /\ nextToken <= MaxTokens
  /\ nextToken' = nextToken + 1
  /\ IF ok
     THEN /\ tempFiles' =
               Register(tempFiles, nextToken,
                        [filePath |-> sync.path, chatId |-> sync.chatId,
                         jobId |-> sync.id, expiresAt |-> now + env.ttl])
          /\ sync' = [sync EXCEPT !.pc = "size", !.tok = nextToken]
     ELSE /\ sync' = SyncFailed(ErrMessage)
          /\ UNCHANGED tempFiles
  /\ UNCHANGED <<env, now, nextCron, nextJobId, job, jobs, poller, timers,
                 disk, writes, cleans, sweep, req, rangeCall, bot, purge,
                 call, hist>>

\* fileService.getFileSize(tempFile.filePath) settles: the size decides
\* between the upload and the link
SyncSize(ok) ==
  /\ sync.pc = "size"
  /\ sync' = IF ~ok THEN SyncFailed(ErrMessage)
            ELSE [sync EXCEPT
                    !.size = disk[sync.path],
                    !.pc = IF disk[sync.path] <= MaxFileSize THEN "upload"
                           ELSE "link"]
  /\ UNCHANGED <<call, jobVars, bot, purge>>
  /\ UNCHANGED <<env, now, nextToken, tempFiles, disk, writes, cleans, sweep,
                 req, rangeCall, hist>>

\* uploadFileToTelegram (pc "upload") or provideDownloadLink (pc "link")
\* settles.  A failed sendAudio falls back to provideDownloadLink;
\* provideDownloadLink catches its own errors and reports them with
\* handleDownloadError, which throws when its messages fail as well.
\*   uploaded  sendAudio succeeded
\*   linked    "ok": the link message was sent, "caught": it failed and
\*             the failure was reported, "thrown": the report failed too
SyncDeliver(uploaded, linked) ==
  /\ sync.pc \in {"upload", "link"}
  /\ sync.pc = "link" => ~uploaded
  /\ uploaded => linked = "ok"
  \* createReadStream and getFileSize need the file
  /\ (uploaded \/ linked = "ok") => disk[sync.path] \notin {NoFile}
  /\ sync' =
       IF uploaded THEN [sync EXCEPT !.pc = "cleanup", !.delivered = "inline"]
       ELSE IF linked = "thrown" THEN SyncFailed(ErrMessage)
       ELSE LET said == IF linked = "ok" THEN "link" ELSE "none" IN
            IF sync.pc = "upload"
            THEN [sync EXCEPT !.pc = "cleanup", !.delivered = said]
            ELSE [sync EXCEPT !.pc = "idle", !.status = "ready",
                              !.delivered = said]
  /\ UNCHANGED <<call, jobVars, bot, purge>>
  /\ UNCHANGED <<env, now, nextToken, tempFiles, disk, writes, cleans, sweep,
                 req, rangeCall, hist>>

\* await fileService.cleanupTempFile(tempFile.id) after uploadFileToTelegram
\* has returned: the file is unlinked (removed: fs.unlink succeeded), the
\* entry deleted, and the job becomes 'ready'
SyncCleanup(removed) ==
  /\ sync.pc = "cleanup"
  /\ disk' = IF removed THEN [disk EXCEPT ![sync.path] = NoFile] ELSE disk
  /\ tempFiles' = Unregister(tempFiles, sync.tok)
  /\ sync' = [sync EXCEPT !.pc = "idle", !.status = "ready"]
  /\ UNCHANGED <<call, jobVars, bot, purge>>
  /\ UNCHANGED <<env, now, nextToken, writes, cleans, sweep, req, rangeCall,
                 hist>>

\* cancelDownload(jobId) for the job in activeDownloads while its status
\* is 'processing': the job is marked failed, the file at job.filePath
\* (set once the size is known) is unlinked (removed: fs.unlink succeeded)
\* and true is returned.  Nothing is said to processSyncDownload.
CancelDownload(removed) ==
  LET hasPath == sync.size # NoFile IN
  /\ sync.status = "processing"
  /\ removed => (hasPath /\ disk[sync.path] # NoFile)
  /\ sync' = [sync EXCEPT !.status = "failed", !.error = ErrCancelled,
                          !.cancelled = TRUE]
  /\ disk' = IF removed THEN [disk EXCEPT ![sync.path] = NoFile] ELSE disk
  /\ UNCHANGED <<call, jobVars, bot, purge>>
  /\ UNCHANGED <<env, now, nextToken, tempFiles, writes, cleans, sweep, req,
                 rangeCall, hist>>

SyncInit ==
  /\ env \in FileEnvs /\ env.sweepAt = 0 /\ env.requests
  /\ now = 0
  /\ nextCron = NoTime
  /\ nextJobId = 1
  /\ job = [j \in JobIds |-> NoJobRec]
  /\ jobs = <<>>
  /\ poller = [p \in Pollers |-> IdlePoller]
  /\ timers = [j \in JobIds |-> NoTime]
  /\ nextToken = 1
  /\ tempFiles = <<>>
  /\ disk = [f \in {GenerateSecureFilename(j, t) :
                      j \in JobIds, t \in Titles} |-> NoFile]
  /\ FilesIdle
  /\ hist = FilesHist

SyncNext ==
  \/ \E c \in Chats, t \in Titles : SyncStart(c, t)
  \/ \E outcome \in {"rejected", "streamError", "empty", "finish"},
        sz \in FileSizes : SyncStream(outcome, sz)
  \/ \E ok \in BOOLEAN : SyncSave(ok)
  \/ \E ok \in BOOLEAN : SyncSize(ok)
  \/ \E uploaded \in BOOLEAN, linked \in {"ok", "caught", "thrown"} :
       SyncDeliver(uploaded, linked)
  \/ \E removed \in BOOLEAN : SyncCleanup(removed)
  \/ \E removed \in BOOLEAN : CancelDownload(removed)

SpecSync == SyncInit /\ [][SyncNext]_vars

\* ================================================ admission of requests
\* The entry points of a download request, one request at a time: a text
\* message with a URL (MessageHandler.handleMessage), and the callbacks
\* retry_download and select_song, which make their own check and then pass
\* the URL to handleMessage.
IsAdmin(c) == c \in AdminChatIds

\* checkRateLimitWithAdminBypass(c).allowed: every tier has points left
\* (RateLimiterMemory.get gives no record for a chat that consumed nothing)
CheckRateLimitWithAdminBypass(used, c) ==
  IsAdmin(c) \/ \A tier \in DOMAIN Points : ~(Points[tier] - used[c][tier] <= 0)

\* the counters after consumeRateLimit(c): one point in each tier
Consumed(used, c) ==
  [used EXCEPT ![c] = [tier \in DOMAIN Points |-> used[c][tier] + 1]]

\* RateLimiterMemory.consume rejects when the points consumed exceed the
\* limit, and Promise.all with it: consumeRateLimit logs and rethrows
ConsumeRejects(used, c) ==
  \E tier \in DOMAIN Points : Consumed(used, c)[c][tier] > Points[tier]

\* a request arrives from chat c by one of the entry points
RequestArrives(c, path) ==
  /\ bot.pc = "idle"
  /\ bot.served < MaxRequests
  /\ bot' = [IdleBot EXCEPT
        !.used = bot.used, !.served = bot.served + 1, !.chat = c,
        !.path = path,
        !.pc = IF path = "message" THEN "messageCheck" ELSE "callbackCheck"]
  /\ UNCHANGED <<call, jobVars, purge>>
  /\ UNCHANGED <<env, now, nextToken, tempFiles, disk, writes, cleans, sweep,
                 req, rangeCall, sync, hist>>

\* await checkRateLimitWithAdminBypass(chatId) settles, in the callback or
\* in handleMessage: a refused request is told so and dropped.  After its
\* own check select_song consumes a point, retry_download calls
\* handleMessage at once.
CheckSettles ==
  /\ bot.pc \in {"callbackCheck", "messageCheck"}
  /\ bot' =
       IF ~CheckRateLimitWithAdminBypass(bot.used, bot.chat)
       THEN [bot EXCEPT !.pc = "idle", !.outcome = "rejected"]
       ELSE [bot EXCEPT
               !.checks = @ + 1,
               !.pc = IF bot.pc = "messageCheck" THEN "messageConsume"
                      ELSE IF bot.path = "select_song" THEN "callbackConsume"
                      ELSE "messageCheck"]
  /\ UNCHANGED <<call, jobVars, purge>>
  /\ UNCHANGED <<env, now, nextToken, tempFiles, disk, writes, cleans, sweep,
                 req, rangeCall, sync, hist>>

\* await consumeRateLimit(chatId) settles, in handleSelectSong or in
\* handleMessage: when it throws, the catch of the handler reports an error
\* and the request is over; otherwise select_song goes on to handleMessage
\* and handleMessage to processYouTubeUrl
ConsumeSettles ==
  /\ bot.pc \in {"callbackConsume", "messageConsume"}
  /\ bot' =
       [bot EXCEPT
          !.used = Consumed(bot.used, bot.chat),
          !.charged = @ + 1,
          !.pc = IF ~ConsumeRejects(bot.used, bot.chat)
                    /\ bot.pc = "callbackConsume"
                 THEN "messageCheck" ELSE "idle",
          !.outcome = IF ConsumeRejects(bot.used, bot.chat) THEN "aborted"
                      ELSE IF bot.pc = "messageConsume" THEN "started"
                      ELSE @]
  /\ UNCHANGED <<call, jobVars, purge>>
  /\ UNCHANGED <<env, now, nextToken, tempFiles, disk, writes, cleans, sweep,
                 req, rangeCall, sync, hist>>

\* the window of a tier ends for chat c: the limiter drops the record
WindowEnds(c, tier) ==
  /\ bot.used[c][tier] > 0
  /\ bot' = [bot EXCEPT !.used[c][tier] = 0]
  /\ UNCHANGED <<call, jobVars, purge>>
  /\ UNCHANGED <<env, now, nextToken, tempFiles, disk, writes, cleans, sweep,
                 req, rangeCall, sync, hist>>

RateNext ==
  \/ \E c \in ChatIds, path \in {"message", "retry_download", "select_song"} :
       RequestArrives(c, path)
  \/ CheckSettles
  \/ ConsumeSettles
  \/ \E c \in ChatIds, tier \in DOMAIN Points : WindowEnds(c, tier)

\* the admission runs start like the sync runs, with fresh limiters
SpecRate == SyncInit /\ [][RateNext]_vars

\* ================================================ messages shown on failure
\* A text is a sequence of words.  The messages the bot sends are texts of
\* one element, the literal of the source without its emoji.
MaxWords == 3             \* longest error text

ErrorWords ==
  {"copyright", "restricted", "not", "found", "404", "timeout", "network",
   "failed"}

RECURSIVE TextsUpTo(_, _)
TextsUpTo(words, n) ==
  IF n = 0 THEN {<<>>}
  ELSE LET shorter == TextsUpTo(words, n - 1) IN
       shorter \cup {Append(t, w) : t \in shorter, w \in words}

\* String.prototype.includes, on whole words
Includes(text, phrase) ==
  \E i \in 1..(Len(text) - Len(phrase) + 1) :
    SubSeq(text, i, i + Len(phrase) - 1) = phrase

\* a getJobErrorMessage whose last return carries the error text
GetJobErrorMessageVerbatim(error) ==
  IF Includes(error, <<"copyright">>) \/ Includes(error, <<"restricted">>)
  THEN <<"This video cannot be downloaded due to copyright restrictions.">>
  ELSE <<"Download failed:">> \o error

\* AsyncJobHandler.getJobErrorMessage
GetJobErrorMessage(error) ==
  IF Includes(error, <<"copyright">>) \/ Includes(error, <<"restricted">>)
  THEN <<"This video cannot be downloaded due to copyright restrictions.">>
  ELSE IF Includes(error, <<"not", "found">>) \/ Includes(error, <<"404">>)
  THEN <<"Video not found. The link might be invalid or " \o
         "the video might be private.">>
  ELSE IF Includes(error, <<"timeout">>) \/ Includes(error, <<"network">>)
  THEN <<"Network timeout. Please try again later.">>
  ELSE <<"Download failed. Please try again or contact support " \o
         "if the problem persists.">>

\* ApiService.getUserErrorMessage: the switch on error.status (-1 stands
\* for an error without a status, as a plain Error has none)
GetUserErrorMessage(error) ==
  CASE error.status = 400 -> <<"Invalid YouTube URL or request. " \o
         "Please check the link and try again.">>
    [] error.status = 403 -> <<"This video cannot be downloaded due to copyright " \o
         "or region restrictions.">>
    [] error.status = 404 ->
         <<"Video not found. The link might be invalid or " \o
           "the video might be private.">>
    [] error.status = 413 -> <<"File is too large to process. " \o
         "Please try a shorter video.">>
    [] error.status = 429 -> <<"Too many requests. " \o
         "Please wait a moment before trying again.">>
    [] error.status = 0 ->
         IF error.code = "NETWORK_ERROR"
         THEN <<"Network connection error. Please try again later.">>
         ELSE <<"Service temporarily unavailable. Please try again later.">>
    [] OTHER -> <<"An unexpected error occurred. Please try again later.">>

\* the text handed to editMessageText when a job fails: handleJobFailed
\* (status.error || 'Job failed', then getJobErrorMessage) for an async job,
\* handleDownloadError (getUserErrorMessage of the error caught) for a sync
\* one
ShownOnFailure(fn, arg) ==
  IF fn = "handleJobFailed"
  THEN GetJobErrorMessage(IF arg = <<>> THEN <<"Job", "failed">> ELSE arg)
  ELSE GetUserErrorMessage(arg)

\* the errors a failure is reported with: the remote error text of a
\* failed status, or the ApiError (or plain Error) a sync download threw
FailureCalls ==
  {[fn |-> "handleJobFailed", arg |-> t, out |-> <<>>] :
     t \in TextsUpTo(ErrorWords, MaxWords)}
  \cup
  {[fn |-> "handleDownloadError",
    arg |-> [status |-> st, code |-> cd, message |-> m], out |-> <<>>] :
     st \in {-1, 0, 400, 403, 404, 413, 429, 500},
     cd \in {"NETWORK_ERROR", "UNKNOWN_ERROR", "HTTP"},
     m \in TextsUpTo({"failed", "network"}, 1)}

\* ============================================================ UrlValidator
\* A URL string is kept by its parts: scheme, host labels, path prefix, the
\* text where the video id stands, what follows it, and its length.  null
\* and the empty string are the other two inputs.
MaxUrlLength == 2048      \* url.length > 2048

NullUrl == [kind |-> "null"]
EmptyUrl == [kind |-> "empty"]

UrlStrings ==
  [kind : {"string"}, scheme : {"http", "https", "ftp"},
   host : {<<"youtube", "com">>, <<"www", "youtube", "com">>,
           <<"youtu", "be">>, <<"m", "youtube", "com">>,
           <<"vimeo", "com">>},
   path : {"/watch?v=", "/", "/v/", "/embed/"},
   id : {"", "dQw4w9WgXcQ"},
   rest : {"", "&list=PL"},
   length : {43, MaxUrlLength, MaxUrlLength + 1}]

\* the optional (www\.)? of the patterns
StripWww(host) == IF Head(host) = "www" THEN Tail(host) ELSE host

\* YOUTUBE_REGEX.some(regex => regex.test(url)): the five patterns, each
\* wanting at least one [\w-] character where the id stands
IsValidYouTubeUrl(url) ==
  /\ url.kind = "string"
  /\ url.scheme \in {"http", "https"}
  /\ url.id # ""
  /\ \/ StripWww(url.host) = <<"youtube", "com">>
        /\ url.path \in {"/watch?v=", "/v/", "/embed/"}
     \/ StripWww(url.host) = <<"youtu", "be">> /\ url.path = "/"
     \/ StripWww(url.host) = <<"m", "youtube", "com">>
        /\ url.path = "/watch?v="

\* extractVideoId: null unless the URL is a YouTube URL; then the first of
\* the four patterns that matches gives the id (the query of a watch URL,
\* the path after youtu.be/, /v/ or /embed/), null when none matches
ExtractVideoId(url) ==
  IF ~IsValidYouTubeUrl(url) THEN "null"
  ELSE IF url.path = "/watch?v=" THEN url.id
  ELSE IF <<"youtu", "be">> = StripWww(url.host) THEN url.id
  ELSE IF url.path \in {"/v/", "/embed/"} THEN url.id
  ELSE "null"

\* domain === allowedDomain || domain.endsWith('.' + allowedDomain), on
\* the labels of the host name
DomainMatches(host, allowed) ==
  /\ Len(host) >= Len(allowed)
  /\ SubSeq(host, Len(host) - Len(allowed) + 1, Len(host)) = allowed

\* isDomainAllowed: new URL(url).hostname against config.security
\* .allowedDomains
IsDomainAllowed(url, allowedDomains) ==
  \E allowed \in allowedDomains : DomainMatches(url.host, allowed)

\* containsBlockedPatterns: some blocked pattern occurs in the URL (here:
\* is one of its parts)
ContainsBlockedPatterns(url, blockedPatterns) ==
  LET parts == {url.scheme, url.path, url.id, url.rest}
                 \cup {url.host[i] : i \in DOMAIN url.host}
  IN blockedPatterns \cap parts # {}

\* a validateUrl that looks at the domain before the format
ValidateUrlDomainFirst(url, allowedDomains, blockedPatterns) ==
  IF url.kind # "string"
  THEN [valid |-> FALSE, reason |-> "URL is required"]
  ELSE IF url.length > MaxUrlLength
  THEN [valid |-> FALSE, reason |-> "URL is too long"]
  ELSE IF ~IsDomainAllowed(url, allowedDomains)
  THEN [valid |-> FALSE, reason |-> "Domain not allowed"]
  ELSE IF ~IsValidYouTubeUrl(url)
  THEN [valid |-> FALSE, reason |-> "Invalid YouTube URL format"]
  ELSE [valid |-> TRUE, videoId |-> ExtractVideoId(url)]

\* UrlValidator.validateUrl
ValidateUrl(url, allowedDomains, blockedPatterns) ==
  IF url.kind # "string"
  THEN [valid |-> FALSE, reason |-> "URL is required"]
  ELSE IF url.length > MaxUrlLength
  THEN [valid |-> FALSE, reason |-> "URL is too long"]
  ELSE IF ~IsValidYouTubeUrl(url)
  THEN [valid |-> FALSE, reason |-> "Invalid YouTube URL format"]
  ELSE IF ~IsDomainAllowed(url, allowedDomains)
  THEN [valid |-> FALSE, reason |-> "Domain not allowed"]
  ELSE IF ContainsBlockedPatterns(url, blockedPatterns)
  THEN [valid |-> FALSE, reason |-> "URL contains blocked content"]
  ELSE IF ExtractVideoId(url) = "null"
  THEN [valid |-> FALSE, reason |-> "Could not extract video ID"]
  ELSE [valid |-> TRUE, videoId |-> ExtractVideoId(url)]

\* the calls of validateUrl: any input, under the default configuration
\* (three domains, nothing blocked) or a configured one
ValidateCalls ==
  {[fn |-> "validateUrl",
    arg |-> [url |-> u, allowedDomains |-> ad, blockedPatterns |-> bp],
    out |-> <<>>] :
     u \in {NullUrl, EmptyUrl} \cup UrlStrings,
     ad \in {{<<"youtube", "com">>, <<"youtu", "be">>,
              <<"m", "youtube", "com">>},
             {<<"youtu", "be">>}},
     bp \in {{}, {"&list=PL"}}}

\* validateUrl runs on the call
UrlValidated ==
  /\ call.fn = "validateUrl"
  /\ call.out = <<>>
  /\ call' = [call EXCEPT
        !.out = ValidateUrl(call.arg.url, call.arg.allowedDomains,
                            call.arg.blockedPatterns)]
  /\ UNCHANGED <<jobVars, env, now, nextToken, tempFiles, disk, writes,
                 cleans, sweep, req, rangeCall, sync, bot, purge, hist>>

\* ---- calls of the pure helpers on their own
HelperInit ==
  /\ env \in FileEnvs /\ env.sweepAt = 0 /\ env.requests
  /\ now = 0
  /\ nextCron = NoTime
  /\ nextJobId = 1
  /\ job = [j \in JobIds |-> NoJobRec]
  /\ jobs = <<>>
  /\ poller = [p \in Pollers |-> IdlePoller]
  /\ timers = [j \in JobIds |-> NoTime]
  /\ nextToken = 1
  /\ tempFiles = <<>>
  /\ disk = [f \in FileNames |-> NoFile]
  /\ writes = [w \in Writers |-> IdleWrite]
  /\ cleans = [c \in Cleaners |-> IdleClean]
  /\ sweep = IdleSweep
  /\ req = IdleReq
  /\ rangeCall = IdleRangeCall
  /\ sync = IdleSync
  /\ bot = IdleBot
  /\ purge = IdlePurge
  /\ hist = FilesHist
  /\ call \in FailureCalls \cup ValidateCalls

\* the failure is reported
FailureShown ==
  /\ call.fn \in {"handleJobFailed", "handleDownloadError"}
  /\ call.out = <<>>
  /\ call' = [call EXCEPT !.out = ShownOnFailure(call.fn, call.arg)]
  /\ UNCHANGED <<jobVars, env, now, nextToken, tempFiles, disk, writes,
                 cleans, sweep, req, rangeCall, sync, bot, purge, hist>>

HelperNext == FailureShown \/ UrlValidated

SpecHelpers == HelperInit /\ [][HelperNext]_vars

\* ================================================================== claims
Created(j) == job[j].status # "absent"

\* FileService.getTempFile(tok) returns the record: it is registered and
\* its expiry is not before now
Resolves(tf, tok, t) == tok \in DOMAIN tf /\ ~(tf[tok].expiresAt < t)

\* some registered artifact carries job id j
HasArtifact(j) == \E t \in DOMAIN tempFiles : tempFiles[t].jobId = j

\* C1: once the status of a job is ready or failed it never changes again,
\* whatever pollJob, handleJobCompleted, handleJobFailed and cancelJob do.
C1_TerminalAbsorbing ==
  [][\A j \in JobIds :
       job[j].status \in Terminal => job'[j].status = job[j].status]_vars

C3_OneTerminalStateWins ==
  /\ [](\A j \in hist.raceCancelled : job[j].status = "failed")
  /\ [][\A j \in JobIds :
          (CancelJob(j) /\ job[j].status \in Terminal
             /\ \E p \in Pollers : poller[p].cur = j)
          => job'[j].status = job[j].status]_vars

\* the invocation in slot p returns normally from handleJobCompleted
CompletionReturns(p) ==
  \/ UploadOk(p) /\ poller'[p].pc # "unlink"
  \/ LinkOk(p) /\ poller'[p].pc # "unlink"
  \/ \E ok \in BOOLEAN : UnlinkDone(p, ok)

\* C4: when the remote answered ready with a download reference and the
\* download and the write succeeded, the job ends ready and its artifact
\* token resolves in the registry (until the TTL), whatever the file size:
\* stated at the return of handleJobCompleted.
C4_ReadyWithResolvableToken ==
  [][\A p \in Pollers :
       CompletionReturns(p)
       => /\ job'[poller[p].cur].status = "ready"
          /\ Resolves(tempFiles', poller[p].tok, now')]_vars

\* C5: a job in the Map whose status is ready has an artifact registered
\* under its job id.
C5_ReadyHasArtifact ==
  \A j \in JobIds :
    (InMap(j) /\ job[j].status = "ready") => HasArtifact(j)

\* the status response "ready" that carries no download reference
NoUrlResp == [status |-> "ready", url |-> FALSE, error |-> ErrNone]

\* C6: when a status poll answers ready without a download reference the
\* job becomes failed with an error recorded and nothing is registered; it
\* then stays in the Map for the grace window and is never ready.
C6_MissingUrlFails ==
  /\ [][\A p \in Pollers :
          StatusResponse(p, NoUrlResp)
          => LET j == poller[p].cur IN
             /\ job'[j].status = "failed"
             /\ job'[j].error = ErrNoUrl
             /\ tempFiles' = tempFiles
             /\ InMap(j) => MapHas(jobs', j)]_vars
  /\ [][\A j \in JobIds :
          (job[j].error = ErrNoUrl /\ InMap(j) /\ ~MapHas(jobs', j))
          => now >= job[j].endTime + GraceMinutes]_vars
  /\ [](\A j \in JobIds : job[j].error = ErrNoUrl => job[j].status # "ready")

\* C7: the status poll that fails as the fifth in a row forces the job to
\* failed with 'Too many polling failures' and retryCount 5; a failed status
\* poll that leaves retryCount below 5 changes neither the status of the job
\* nor its presence in the Map.
C7_FifthFailureForcesFailed ==
  [][\A p \in Pollers :
       StatusError(p)
       => LET j == poller[p].cur IN
          /\ hist'.consec[j] = RetryCeiling
               => /\ job'[j].status = "failed"
                  /\ job'[j].error = ErrTooMany
                  /\ job'[j].retryCount = RetryCeiling
          /\ job'[j].retryCount < RetryCeiling
               => /\ job'[j].status = job[j].status
                  /\ MapHas(jobs', j) = InMap(j)]_vars

\* C8: a successful status poll after four failed ones does not fail the
\* job, and a failed status poll gives the job up only when it is the fifth
\* failed poll in a row: failures separated by a successful poll do not add
\* up to the ceiling.
C8_SuccessResetsRetries ==
  /\ [][\A p \in Pollers, r \in Responses :
          (StatusResponse(p, r) /\ r.status \in Active
             /\ hist.consec[poller[p].cur] = RetryCeiling - 1)
          => job'[poller[p].cur].status \in Active]_vars
  /\ [][\A p \in Pollers :
          (StatusError(p) /\ job[poller[p].cur].status # "failed"
             /\ job'[poller[p].cur].status = "failed")
          => hist'.consec[poller[p].cur] >= RetryCeiling]_vars

\* C9: cancelJob on a job that is already ready or failed leaves its status
\* and its error as they are; on an id that is not in the Map it does
\* nothing.
C9_CancelOnlyWhileActive ==
  /\ [][\A j \in JobIds :
          (CancelJob(j) /\ job[j].status \in Terminal)
          => /\ job'[j].status = job[j].status
             /\ job'[j].error = job[j].error]_vars
  /\ [](\A j \in JobIds : ~InMap(j) => ~ENABLED CancelJob(j))

\* the invocation in some slot has job id j in hand or still to poll
Polled(j) ==
  \E p \in Pollers :
    \/ poller[p].cur = j
    \/ \E i \in 1..Len(poller[p].queue) : poller[p].queue[i] = j

InFlight(j) == {p \in Pollers : poller[p].cur = j}

\* C11: at most one poll-loop iteration is in flight for a job at any time,
\* also when a tick outlasts the timer interval, so the completion handling
\* of a job (download, registration, delivery) never runs twice at once.
C11_OneIterationPerJob ==
  \A j \in JobIds : Cardinality(InFlight(j)) <= 1

\* ---------------------------------------------------------------- registry
\* C12: an artifact counts as expired exactly when now >= expiresAt, for
\* getTempFile and for cleanupExpiredFiles alike: a lookup of a registered
\* token finds the artifact exactly when now < expiresAt, and a sweep
\* collects (evicts and counts) exactly the entries with expiresAt <= now.
C12_ExpiredAtDeadline ==
  /\ [][\A method \in {"GET", "HEAD"}, tok \in Tokens, range \in FileRanges :
          (GetStart(method, tok, range) /\ tok \in DOMAIN tempFiles)
          => ((req'.pc = "exists") <=> (now < tempFiles[tok].expiresAt))]_vars
  /\ [][SweepStart
          => LET due == {k \in DOMAIN tempFiles :
                           tempFiles[k].expiresAt <= now}
             IN IF sweep'.pc = "run" THEN sweep'.expired = due
                ELSE due = {} /\ sweep'.returned = 0]_vars

\* C13: once now > expiresAt a lookup answers not-found and has evicted the
\* token when it returns, so that a sweep starting afterwards does not count
\* the token.
C13_ResolveEvicts ==
  /\ [][\A method \in {"GET", "HEAD"}, tok \in Tokens, range \in FileRanges :
          (GetStart(method, tok, range) /\ tok \in DOMAIN tempFiles
             /\ now > tempFiles[tok].expiresAt)
          => /\ req'.res.status = 404
             /\ tok \notin DOMAIN tempFiles']_vars
  /\ [][SweepStart => sweep'.expired \cap hist.goneByResolve = {}]_vars

\* C14: a lookup never returns an artifact whose file the sweep has deleted.
C14_ResolveNeverReturnsSwept ==
  [][\A method \in {"GET", "HEAD"}, tok \in Tokens, range \in FileRanges :
       (GetStart(method, tok, range) /\ req'.pc = "exists")
       => req'.rec.filePath \notin hist.sweptPaths]_vars

C16_FailedRegistrationCleansUp ==
  [][\A w \in Writers, unlinked \in BOOLEAN :
       RegisterFail(w, unlinked)
       => /\ writes[w].tok \notin DOMAIN tempFiles'
          /\ \/ disk'[writes[w].rec.filePath] = NoFile
             \/ (writes[w].kind = "stream" /\ ~unlinked)]_vars

ContentRangeOf(first, last, size) ==
  <<"b", "y", "t", "e", "s", " ">> \o ToDigits(first) \o <<"-">>
    \o ToDigits(last) \o <<"/">> \o ToDigits(size)

\* C19: for Range: bytes=first-last (last defaulting to size-1) the answer
\* is 416 with Content-Range 'bytes */size' and no body exactly when
\* first >= size or last >= size or first > last; otherwise it is 206 with
\* Content-Range 'bytes first-last/size', Content-Length last-first+1 and
\* the bytes first..last.
C19_RangeResponse ==
  LET c == rangeCall
      last == IF c.last = Omitted THEN c.fileSize - 1 ELSE c.last
  IN (c.res # NoResponse /\ c.form = "bytes") =>
       IF c.first >= c.fileSize \/ last >= c.fileSize \/ c.first > last
       THEN /\ c.res.status = 416
            /\ c.res.contentRange =
                 <<"b", "y", "t", "e", "s", " ", "*", "/">>
                   \o ToDigits(c.fileSize)
            /\ c.res.stream = NoStream
       ELSE /\ c.res.status = 206
            /\ c.res.contentRange = ContentRangeOf(c.first, last, c.fileSize)
            /\ c.res.contentLength = ToDigits(last - c.first + 1)
            /\ c.res.stream = [start |-> c.first, end |-> last]

\* bytes=1000-1000 on 1000 bytes has been answered 416
C19_Witness ==
  /\ rangeCall.fileSize = 1000 /\ rangeCall.first = 1000
  /\ rangeCall.form = "bytes"
  /\ rangeCall.last = 1000 /\ rangeCall.res.status = 416

\* C20: a range that starts inside the file and ends at or beyond its size
\* is served as 206 with the end clamped to size-1 (bytes=999-2000 on 1000
\* bytes: one byte, 'bytes 999-999/1000').
C20_EndClamped ==
  LET c == rangeCall IN
  (c.res # NoResponse /\ c.form = "bytes" /\ c.last # Omitted
     /\ c.first < c.fileSize
     /\ c.last >= c.fileSize /\ c.first <= c.last)
  => /\ c.res.status = 206
     /\ c.res.contentRange =
          ContentRangeOf(c.first, c.fileSize - 1, c.fileSize)
     /\ c.res.contentLength = ToDigits(c.fileSize - c.first)
     /\ c.res.stream = [start |-> c.first, end |-> c.fileSize - 1]

\* C21: a malformed Range header (start not a number, start missing, end not
\* a number, no 'bytes=' unit) is either ignored (the whole file, 200) or
\* answered with an error status; in particular it never gets a 206 whose
\* Content-Length and Content-Range differ from the bytes streamed.
C21_MalformedRangeRejected ==
  LET c == rangeCall IN
  (c.res # NoResponse /\ c.form \notin {"none", "bytes"})
  => /\ c.res.status \in {200, 400, 416, 500}
     /\ c.res.status = 200 => c.res = FullResponse(c.fileSize)
     /\ c.res.status = 206 =>
          /\ c.res.stream # NoStream
          /\ c.res.stream.start # NaN /\ c.res.stream.end # NaN
          /\ c.res.contentRange =
               ContentRangeOf(c.res.stream.start, c.res.stream.end,
                              c.fileSize)
          /\ c.res.contentLength =
               ToDigits(c.res.stream.end - c.res.stream.start + 1)

C23_StreamErrorEndsResponse ==
  [][StreamSettle("error")
       => /\ req'.pc = "idle"
          /\ req'.res.status = req.res.status
          /\ req'.headers = req.headers]_vars

\* ------------------------------------------------------- removal of jobs
\* C24: a terminal job younger than the age ceiling leaves the job map only
\* once the grace window (5 minutes) has elapsed since it became terminal;
\* as a job is created before it becomes terminal, it is then at least 5
\* minutes old.
C24_TerminalJobKeptForGrace ==
  [][\A j \in JobIds :
       (InMap(j) /\ ~MapHas(jobs', j) /\ job[j].status \in Terminal
          /\ now - job[j].startTime <= MaxAgeMinutes)
       => /\ job[j].endTime # NoTime
          /\ now - job[j].endTime >= GraceMinutes
          /\ now - job[j].startTime >= GraceMinutes]_vars

\* C25: a run of cleanupOldJobs removes every job of the map whose age
\* (now - startTime) exceeds 24 hours, whatever its status.
C25_AgeSweepRemovesOldJobs ==
  [][CleanupOldJobs
       => \A j \in JobIds :
            (InMap(j) /\ now - job[j].startTime > MaxAgeMinutes)
            => ~MapHas(jobs', j)]_vars

\* a job that was still queued or processing when it was over 24 hours old
\* has left the map
C25_Witness ==
  \E j \in JobIds :
    /\ job[j].status \in Active /\ ~InMap(j)
    /\ now - job[j].startTime > MaxAgeMinutes

\* ------------------------------------------------------------ the sync path
\* C26: when processSyncDownload returns after the size was measured, a
\* size <= maxFileSize means that no artifact of the job is registered and
\* that a job that ended 'ready' was delivered inline; a size > maxFileSize
\* means that the artifact is still registered, for the link.
C26_SizeDecidesDelivery ==
  [][(sync.pc # "idle" /\ sync'.pc = "idle" /\ sync'.size # NoFile)
       => IF sync'.size <= MaxFileSize
          THEN /\ sync'.status = "ready" => sync'.delivered = "inline"
               /\ \A k \in DOMAIN tempFiles' : tempFiles'[k].jobId # sync.id
          ELSE /\ sync.tok \in DOMAIN tempFiles'
               /\ tempFiles'[sync.tok].jobId = sync.id]_vars

\* C27: when the conversion stream fails or ends without a byte,
\* processSyncDownload ends with the job 'failed', no artifact registered
\* for it and no file, partial or empty, at the path.
C27_FailedStreamLeavesNothing ==
  [][\A sz \in FileSizes :
       (SyncStream("streamError", sz) \/ SyncStream("empty", sz))
       => /\ sync'.pc = "idle" /\ sync'.status = "failed"
          /\ \A k \in DOMAIN tempFiles' : tempFiles'[k].jobId # sync.id
          /\ disk'[sync.path] = NoFile]_vars

\* --------------------------------------------------------------- admission
\* C28: a download is started only for a request whose admission check
\* returned allowed, and a request of an admin chat is never refused nor
\* aborted because of the chat's rate-limit counters.
C28_AdmissionAndAdminBypass ==
  /\ bot.outcome = "started" => bot.checks > 0
  /\ IsAdmin(bot.chat) => bot.outcome \notin {"rejected", "aborted"}

\* C29: cleanupChatFiles(chatId) removes from the registry exactly the
\* artifacts of that chat and returns their number (first two conjuncts, at
\* its return); no step it takes changes the record or the bytes of an
\* artifact owned by another chat (third conjunct).
C29_ChatCleanupExact ==
  [][ /\ (purge' # purge /\ purge'.pc = "idle") =>
           /\ purge'.returned = Cardinality(purge'.chatTokens)
           /\ \A k \in purge'.chatTokens : k \notin DOMAIN tempFiles'
      /\ (\E c \in Cleaners : cleans[c].by = "chat" /\ cleans'[c] # cleans[c])
           => \A k \in DOMAIN tempFiles :
                tempFiles[k].chatId # purge.chatId =>
                  /\ k \in DOMAIN tempFiles'
                  /\ tempFiles'[k] = tempFiles[k]
                  /\ disk'[tempFiles[k].filePath] = disk[tempFiles[k].filePath]
    ]_vars

\* C30: left to the sweep timer, every registered artifact whose TTL ends
\* before the next firing of the timer (a firing within the run) is
\* eventually removed from the registry, without any lookup of its token
\* and whatever fs.unlink answers.
C30_SweepRemovesExpired ==
  \A k \in Tokens :
    (/\ k \in DOMAIN tempFiles
     /\ tempFiles[k].expiresAt < sweep.next
     /\ sweep.next <= env.horizon)
      ~> (k \notin DOMAIN tempFiles)

\* the sweep has removed an artifact whose file could not be deleted
C30_Witness ==
  /\ sweep.pc = "idle"
  /\ sweep.returned > 0
  /\ \E k \in hist.deleted, f \in FileNames :
       /\ k \notin DOMAIN tempFiles
       /\ hist.holder[f] = k
       /\ disk[f] # NoFile

\* the messages of getJobErrorMessage and getUserErrorMessage
UserMessages ==
  { <<"This video cannot be downloaded due to copyright restrictions.">>,
    <<"Video not found. The link might be invalid or " \o
         "the video might be private.">>,
    <<"Network timeout. Please try again later.">>,
    <<"Download failed. Please try again or contact support " \o
         "if the problem persists.">>,
    <<"Invalid YouTube URL or request. " \o
         "Please check the link and try again.">>,
    <<"This video cannot be downloaded due to copyright " \o
         "or region restrictions.">>,
    <<"File is too large to process. " \o
         "Please try a shorter video.">>,
    <<"Too many requests. " \o
         "Please wait a moment before trying again.">>,
    <<"Network connection error. Please try again later.">>,
    <<"Service temporarily unavailable. Please try again later.">>,
    <<"An unexpected error occurred. Please try again later.">> }

\* C31: the reason shown for a failed job is one of a fixed set of messages
\* and never carries the raw error text, for an async job (handleJobFailed)
\* and for a sync one (handleDownloadError).
C31_FailureMessageFromFixedSet ==
  (call.fn \in {"handleJobFailed", "handleDownloadError"} /\ call.out # <<>>)
    => /\ call.out \in UserMessages
       /\ \A i \in DOMAIN call.out : call.out[i] \notin ErrorWords

\* a remote error text of no known class has been reported
C31_Witness ==
  /\ call.fn = "handleJobFailed"
  /\ call.arg = <<"failed">>
  /\ call.out = <<"Download failed. Please try again or contact support " \o
         "if the problem persists.">>

\* C32: validateUrl answers either {valid: true, videoId} or {valid: false,
\* reason}, never both fields; null and the empty string give exactly
\* {valid: false, reason: 'URL is required'}; and the reason is that of the
\* first check that fails in the order required, length, format, domain,
\* blocked pattern, video id.
C32_ValidateUrlShapeAndOrder ==
  (call.fn = "validateUrl" /\ call.out # <<>>) =>
    LET u == call.arg.url
        out == call.out
        required == u.kind = "string"
        short == u.length <= MaxUrlLength
        format == IsValidYouTubeUrl(u)
        domain == IsDomainAllowed(u, call.arg.allowedDomains)
        clean == ~ContainsBlockedPatterns(u, call.arg.blockedPatterns)
        hasId == ExtractVideoId(u) # "null"
    IN
    /\ \/ DOMAIN out = {"valid", "videoId"} /\ out.valid
       \/ DOMAIN out = {"valid", "reason"} /\ ~out.valid
    /\ ~required => out = [valid |-> FALSE, reason |-> "URL is required"]
    /\ required =>
         /\ ~short => out.reason = "URL is too long"
         /\ (short /\ ~format) => out.reason = "Invalid YouTube URL format"
         /\ (short /\ format /\ ~domain) => out.reason = "Domain not allowed"
         /\ (short /\ format /\ domain /\ ~clean) =>
              out.reason = "URL contains blocked content"
         /\ (short /\ format /\ domain /\ clean /\ ~hasId) =>
              out.reason = "Could not extract video ID"
         /\ (short /\ format /\ domain /\ clean /\ hasId) =>
              out = [valid |-> TRUE, videoId |-> ExtractVideoId(u)]

\* a URL of another site, too short to be refused for its length, has been
\* refused for its format although its domain is not allowed either
C32_Witness ==
  /\ call.fn = "validateUrl"
  /\ call.arg.url.kind = "string"
  /\ call.arg.url.host = <<"vimeo", "com">>
  /\ call.arg.url.length <= MaxUrlLength
  /\ call.out = [valid |-> FALSE, reason |-> "Invalid YouTube URL format"]

\* C33: two distinct registered tokens never refer to the same file path.
C33_LiveTokensHaveDistinctPaths ==
  \A k1 \in DOMAIN tempFiles, k2 \in DOMAIN tempFiles :
    k1 # k2 => tempFiles[k1].filePath # tempFiles[k2].filePath

\* C34: when handleJobCompleted returns after provideDownloadLink has sent
\* the link of a token (directly, or as the fallback of a failed upload),
\* that token resolves in the registry.
C34_LinkedTokenResolves ==
  [][\A p \in Pollers :
       (\/ LinkOk(p) /\ poller'[p].pc # "unlink"
        \/ \E ok \in BOOLEAN : UnlinkDone(p, ok) /\ poller[p].fallback)
       => Resolves(tempFiles', poller[p].tok, now)]_vars

\* C35: once handleJobCompleted or handleJobFailed is through with a job
\* that ended failed (no pollJobs run is working on it any more), the
\* registry holds no artifact carrying its job id.
C35_FailedJobLeavesNoArtifact ==
  \A j \in JobIds :
    (job[j].status = "failed" /\ \A p \in Pollers : poller[p].cur # j)
      => ~HasArtifact(j)

\* C36: after cancelDownload has returned true for a sync job, no step of
\* its processSyncDownload changes the status from failed, delivers the
\* file or registers an artifact.
C36_CancelledSyncJobStaysFailed ==
  [][(sync.cancelled /\ sync'.id = sync.id)
       => /\ sync'.status = "failed"
          /\ sync'.delivered = sync.delivered
          /\ DOMAIN tempFiles' \subseteq DOMAIN tempFiles]_vars

\* C37: getTempFile never returns the record of a token whose file a
\* deletion asked for by a handler or a per-chat cleanup has already
\* unlinked.
C37_NoResolveAfterUnlink ==
  [][\A method \in {"GET", "HEAD"}, tok \in Tokens, range \in FileRanges :
       (GetStart(method, tok, range) /\ req'.pc # "idle")
       => ~\E c \in Cleaners :
             /\ cleans[c].tok = tok
             /\ cleans[c].by \in {"delete", "chat"}
             /\ cleans[c].pc = "settled"
             /\ cleans[c].out = "ok"]_vars

\* C38: a request whose download is started has consumed exactly one point
\* in each tier, and a request that passed the admission check of its
\* entry point is not refused by a later check made for the same request.
C38_OnePointPerAcceptedRequest ==
  /\ [](bot.outcome = "started" => bot.charged = 1)
  /\ [][(CheckSettles /\ bot.checks > 0) => bot'.outcome # "rejected"]_vars

\* C39: a job whose cancel_download callback was answered 'Download
\* cancelled' has been moved to failed (cancelled), so that it is never
\* delivered afterwards.
C39_AnsweredCancelMeansCancelled ==
  \A j \in hist.cancelAnswered :
    job[j].status = "failed" /\ job[j].error = ErrCancelled

\* ------------------------------------------------------------- termination
\* C40: a job put in the map is in the end terminal or out of the map,
\* whether the remote keeps answering 'processing', keeps failing the status
\* poll or gave no remote id, as long as the poll timer, the removal timers
\* and the hourly sweep keep firing (for a job whose 24 hours and the sweep
\* after them lie within the run).
C40_EveryJobEnds ==
  \A j \in JobIds :
    (InMap(j) /\ job[j].startTime + MaxAgeMinutes + CronPeriodMinutes
                   <= env.horizon)
      ~> (~InMap(j) \/ job[j].status \in Terminal)

\* a job without a remote id, never polled and still 'queued', has been
\* taken out of the map by the sweep after its 24 hours
C40_Witness ==
  \E j \in JobIds :
    /\ job[j].status = "queued" /\ ~job[j].apiJobId /\ ~InMap(j)
    /\ now - job[j].startTime > MaxAgeMinutes
    /\ env = StuckEnv

====
